---------------------------- MODULE Spec2Model ----------------------------
(***************************************************************************)
(* A model of the matching tool (matching-tool-rs): the matcher of         *)
(* src/src/matcher.rs, with the options of src/src/args.rs.                *)
(*                                                                         *)
(* Representation.                                                         *)
(*  - An f32 score is a whole number of thousandths (One = 1.0), or NaN.   *)
(*    Products and quotients are cut to the grid; NaN propagates through   *)
(*    arithmetic and every comparison with NaN is false, as in IEEE 754.   *)
(*  - The components of a sparse vector and its norm are whole numbers;    *)
(*    the vectors used have integral norms, so sqrt is exact on them.      *)
(*  - Option<T> is a sequence of length 0 (None) or 1 (Some(x)); the same  *)
(*    for Result<T, _> of a parse (Err is the empty sequence).             *)
(*  - A string the code looks into (years, cards, titles, authors) is a    *)
(*    sequence of one-character strings; an id is an opaque string.        *)
(***************************************************************************)
EXTENDS Integers, Sequences, FiniteSets, TLC

VARIABLES
    config,               \* Config.options (args.rs), fixed for a run
    dataset_vectors,      \* Vec<DatasetWeightedVector>, in dataset order
    source_data_records,  \* SourceData.records: id -> SourceRecord
    pc,                   \* where the run is
    statistics,           \* MatchStatistics of match_json_zip
    output_records,       \* Vec<OutputRecord> of match_json_zip
    scored,               \* the inputs process_record was called for
    call,                 \* arguments, stages and result of the last call
    records,              \* the (card, record) list read from the input zip
    updates               \* the calls of MatchStatistics::update so far

vars == <<config, dataset_vectors, source_data_records, pc, statistics,
          output_records, scored, call, records, updates>>

---------------------------------------------------------------------------
(* Option / Result *)

None == <<>>

Some(x) == <<x>>

IsSome(o) == Len(o) = 1

Unwrap(o) == o[1]

---------------------------------------------------------------------------
(* f32 on a grid of thousandths *)

One == 10 * 10 * 10

NaN == 0 - (One * One)

IsNaN(a) == a = NaN

\* a < b on f32: false when either side is NaN
FLt(a, b) == ~IsNaN(a) /\ ~IsNaN(b) /\ a < b

FGt(a, b) == ~IsNaN(a) /\ ~IsNaN(b) /\ a > b

FGe(a, b) == ~IsNaN(a) /\ ~IsNaN(b) /\ a >= b

FLe(a, b) == ~IsNaN(a) /\ ~IsNaN(b) /\ a =< b

\* f32::partial_cmp: None when either side is NaN
partial_cmp(a, b) ==
    IF IsNaN(a) \/ IsNaN(b) THEN None
    ELSE Some(IF a < b THEN "Less" ELSE IF a = b THEN "Equal" ELSE "Greater")

FAdd(a, b) == IF IsNaN(a) \/ IsNaN(b) THEN NaN ELSE a + b

FSub(a, b) == IF IsNaN(a) \/ IsNaN(b) THEN NaN ELSE a - b

\* the product of two scores, cut to the grid
FMul(a, b) == IF IsNaN(a) \/ IsNaN(b) THEN NaN ELSE (a * b) \div One

\* f32::max: the other operand when one is NaN
FMax(a, b) ==
    IF IsNaN(a) THEN b ELSE IF IsNaN(b) THEN a ELSE IF a >= b THEN a ELSE b

RECURSIVE SqrtBetween(_, _, _)
SqrtBetween(n, lo, hi) ==
    IF lo >= hi THEN lo
    ELSE LET mid == (lo + hi + 1) \div 2
         IN  IF mid * mid =< n THEN SqrtBetween(n, mid, hi)
             ELSE SqrtBetween(n, lo, mid - 1)

\* f32::sqrt on the grid: the largest r with r * r =< n
ISqrt(n) == SqrtBetween(n, 0, IF n > One * 10 THEN One * 10 ELSE n)

---------------------------------------------------------------------------
(* Strings as sequences of characters *)

Digit == {"0", "1", "2", "3", "4", "5", "6", "7", "8", "9"}

DigitVal(c) ==
    CASE c = "0" -> 0 [] c = "1" -> 1 [] c = "2" -> 2 [] c = "3" -> 3
      [] c = "4" -> 4 [] c = "5" -> 5 [] c = "6" -> 6 [] c = "7" -> 7
      [] c = "8" -> 8 [] c = "9" -> 9

RECURSIVE DigitsVal(_)
DigitsVal(s) ==
    IF s = <<>> THEN 0
    ELSE 10 * DigitsVal(SubSeq(s, 1, Len(s) - 1)) + DigitVal(s[Len(s)])

AllDigits(s) == Len(s) > 0 /\ \A i \in 1..Len(s) : s[i] \in Digit

\* i32::MAX and i32::MIN
I32_MAX == ((1024 * 1024 * 1024) - 1) * 2 + 1

I32_MIN == (0 - I32_MAX) - 1

RECURSIVE StripZeros(_)
StripZeros(s) ==
    IF Len(s) > 1 /\ s[1] = "0" THEN StripZeros(Tail(s)) ELSE s

\* digit strings of one length compare as their numbers do, digit by digit
RECURSIVE DigitsLe(_, _)
DigitsLe(s, t) ==
    IF s = <<>> THEN TRUE
    ELSE IF DigitVal(s[1]) # DigitVal(t[1]) THEN DigitVal(s[1]) < DigitVal(t[1])
    ELSE DigitsLe(Tail(s), Tail(t))

\* the number written by the digits is at most 2147483647 + extra
FitsI32(digits, extra) ==
    LET d == StripZeros(digits)
        limit == <<"2", "1", "4", "7", "4", "8", "3", "6", "4",
                   IF extra = 0 THEN "7" ELSE "8">>
    IN  Len(d) < Len(limit) \/ (Len(d) = Len(limit) /\ DigitsLe(d, limit))

\* the negated number of a digit string that fits, built downwards so that
\* i32::MIN is reached without passing 2147483648
RECURSIVE NegDigitsVal(_)
NegDigitsVal(s) ==
    IF s = <<>> THEN 0
    ELSE 10 * NegDigitsVal(SubSeq(s, 1, Len(s) - 1)) - DigitVal(s[Len(s)])

\* str::parse::<i32>: an optional sign, then one or more ASCII digits, and
\* an error when the number is outside i32
ParseI32(s) ==
    IF AllDigits(s)
        THEN IF FitsI32(s, 0) THEN Some(DigitsVal(StripZeros(s))) ELSE None
    ELSE IF Len(s) > 1 /\ s[1] = "+" /\ AllDigits(Tail(s))
        THEN IF FitsI32(Tail(s), 0)
                THEN Some(DigitsVal(StripZeros(Tail(s)))) ELSE None
    ELSE IF Len(s) > 1 /\ s[1] = "-" /\ AllDigits(Tail(s))
        THEN IF FitsI32(Tail(s), 1)
                THEN Some(NegDigitsVal(StripZeros(Tail(s)))) ELSE None
    ELSE None

\* a - b of two i32 is outside i32
sub_overflows(a, b) ==
    \/ b < 0 /\ a > I32_MAX + b
    \/ b > 0 /\ a < I32_MIN + b

\* i32::wrapping_sub: a - b modulo 2^32
wrapping_sub(a, b) ==
    IF b < 0 /\ a > I32_MAX + b THEN ((a - I32_MAX) + (I32_MIN - b)) - 1
    ELSE IF b > 0 /\ a < I32_MIN + b THEN ((a - I32_MIN) + (I32_MAX - b)) + 1
    ELSE a - b

\* i32::wrapping_abs: i32::MIN has no absolute value and stays itself
wrapping_abs(n) == IF n = I32_MIN THEN I32_MIN ELSE IF n < 0 THEN 0 - n ELSE n

\* str::parse::<u32>: an optional '+', then one or more ASCII digits
ParseU32(s) ==
    IF AllDigits(s) THEN Some(DigitsVal(s))
    ELSE IF Len(s) > 1 /\ s[1] = "+" /\ AllDigits(Tail(s))
        THEN Some(DigitsVal(Tail(s)))
    ELSE None

Abs(n) == IF n < 0 THEN 0 - n ELSE n

Contains(seq, x) == \E i \in 1..Len(seq) : seq[i] = x

---------------------------------------------------------------------------
(* Sparse cosine *)

RECURSIVE dot_product_from(_, _, _, _)
dot_product_from(vector1, vector2, i, j) ==
    IF i > Len(vector1) \/ j > Len(vector2) THEN 0
    ELSE IF vector1[i][1] = vector2[j][1]
        THEN vector1[i][2] * vector2[j][2]
             + dot_product_from(vector1, vector2, i + 1, j + 1)
    ELSE IF vector1[i][1] < vector2[j][1]
        THEN dot_product_from(vector1, vector2, i + 1, j)
    ELSE dot_product_from(vector1, vector2, i, j + 1)

dot_product(vector1, vector2) == dot_product_from(vector1, vector2, 1, 1)

\* dot_product(v, v).sqrt()
self_norm(vector) == ISqrt(dot_product(vector, vector))

\* dot / (norm1 * norm2) in f32: 0/0 is NaN
cosine_similarity(vector1, vector1_selfdot, vector2, vector2_selfdot) ==
    LET dot == dot_product(vector1, vector2)
        den == vector1_selfdot * vector2_selfdot
    IN  IF den = 0 THEN NaN ELSE (dot * One) \div den

calculate_base_similarity(input_combined_vector, self_dot, document) ==
    cosine_similarity(input_combined_vector, self_dot,
                      document.vector, document.dot)

\* one element of precalc_weighted_average_vectors_for_source
DatasetWeightedVector(id, combined_vector) ==
    [id |-> id, vector |-> combined_vector, dot |-> self_norm(combined_vector)]

---------------------------------------------------------------------------
(* Year gate *)

\* the forced-year gate without the pass for an input year "0"
calculate_similarity_forced_year_gating_zero(cfg, record, source_record, input_combined_vector, self_dot, document) ==
    IF cfg.json_schema_version >= 2
        THEN IF IsSome(ParseU32(source_record.year))
                /\ Contains(record.allowed_years,
                            Unwrap(ParseU32(source_record.year)))
                THEN calculate_base_similarity(input_combined_vector, self_dot,
                                               document)
                ELSE 0
    ELSE IF record.year # source_record.year
        THEN 0
    ELSE calculate_base_similarity(input_combined_vector, self_dot, document)

calculate_similarity_forced_year(cfg, record, source_record, input_combined_vector, self_dot, document) ==
    IF record.year = <<"0">>
        THEN calculate_base_similarity(input_combined_vector, self_dot, document)
    ELSE IF cfg.json_schema_version >= 2
        THEN IF IsSome(ParseU32(source_record.year))
                THEN IF ~Contains(record.allowed_years,
                                  Unwrap(ParseU32(source_record.year)))
                        THEN 0
                        ELSE calculate_base_similarity(input_combined_vector,
                                                       self_dot, document)
                ELSE 0
    ELSE IF record.year # source_record.year
        THEN 0
    ELSE calculate_base_similarity(input_combined_vector, self_dot, document)

\* the value of a call that panics
Panic == NaN - 1

\* cfg.overflow_checks is the build profile: integer overflow panics when it
\* is set (a debug build) and wraps when it is not (a release build)
calculate_similarity_within_year_tolerance(cfg, record, source_record, input_combined_vector, self_dot, document) ==
    IF record.year = <<"0">>
        THEN calculate_base_similarity(input_combined_vector, self_dot, document)
    ELSE IF IsSome(cfg.year_tolerance)
        THEN IF IsSome(ParseI32(record.year))
                THEN IF IsSome(ParseI32(source_record.year))
                        THEN LET record_year == Unwrap(ParseI32(record.year))
                                 source_year == Unwrap(ParseI32(source_record.year))
                                 difference == wrapping_sub(record_year, source_year)
                                 year_diff == wrapping_abs(difference)
                             IN  IF cfg.overflow_checks
                                    /\ (sub_overflows(record_year, source_year)
                                        \/ difference = I32_MIN)
                                    THEN Panic
                                 ELSE IF year_diff =< Unwrap(cfg.year_tolerance)
                                    THEN LET base_similarity ==
                                                 calculate_base_similarity(
                                                     input_combined_vector,
                                                     self_dot, document)
                                             penalty ==
                                                 One - year_diff
                                                       * cfg.year_tolerance_penalty
                                         IN  FMul(base_similarity, FMax(penalty, 0))
                                    ELSE 0
                        ELSE 0
                ELSE 0
    ELSE calculate_base_similarity(input_combined_vector, self_dot, document)

calculate_similarity_score(cfg, record, source_record_opt, input_combined_vector, self_dot, document) ==
    IF ~cfg.force_year
        THEN calculate_base_similarity(input_combined_vector, self_dot, document)
    ELSE IF cfg.force_year /\ ~IsSome(cfg.year_tolerance)
        THEN IF IsSome(source_record_opt)
                THEN calculate_similarity_forced_year(cfg, record,
                         Unwrap(source_record_opt), input_combined_vector,
                         self_dot, document)
                ELSE calculate_base_similarity(input_combined_vector, self_dot,
                                               document)
    ELSE IF cfg.force_year /\ IsSome(cfg.year_tolerance)
        THEN IF IsSome(source_record_opt)
                THEN calculate_similarity_within_year_tolerance(cfg, record,
                         Unwrap(source_record_opt), input_combined_vector,
                         self_dot, document)
                ELSE calculate_base_similarity(input_combined_vector, self_dot,
                                               document)
    ELSE calculate_base_similarity(input_combined_vector, self_dot, document)

---------------------------------------------------------------------------
(* Options, records and the reference data the runs draw from *)

\* parse_options: the value of every option that is not given, and a
\* release build
DefaultOptions ==
    [force_year |-> FALSE, year_tolerance |-> None,
     year_tolerance_penalty |-> One \div 4,
     similarity_threshold |-> None, z_threshold |-> None,
     min_single_similarity |-> None, min_multiple_similarity |-> None,
     add_author_to_title |-> FALSE, overlap_adjustment |-> None,
     jaro_winkler_adjustment |-> FALSE,
     jaro_winkler_author_adjustment |-> FALSE,
     jaro_winkler_truncate |-> "None",
     json_schema_version |-> 1, excluded_ids |-> <<>>,
     input_excluded_ids |-> <<>>, overflow_checks |-> FALSE,
     add_serial_to_title |-> FALSE, add_edition_to_title |-> FALSE,
     parse_year_ranges |-> FALSE, use_first_parsed_year |-> FALSE]

\* the years of the model are BaseYear - YearSpan .. BaseYear + YearSpan
BaseYear == 1990

YearSpan == 2

\* year_tolerance is unset or 0..MaxTolerance
MaxTolerance == 3

Years == (BaseYear - YearSpan)..(BaseYear + YearSpan)

DigitChar(d) ==
    CASE d = 0 -> "0" [] d = 1 -> "1" [] d = 2 -> "2" [] d = 3 -> "3"
      [] d = 4 -> "4" [] d = 5 -> "5" [] d = 6 -> "6" [] d = 7 -> "7"
      [] d = 8 -> "8" [] d = 9 -> "9"

\* u32::to_string
RECURSIVE to_string(_)
to_string(n) ==
    IF n < 10 THEN <<DigitChar(n)>>
    ELSE Append(to_string(n \div 10), DigitChar(n % 10))

JsonRecord(edition, title, author, year, allowed_years) ==
    [edition |-> edition, title |-> title, author |-> author,
     year |-> year, allowed_years |-> allowed_years]

\* the year lists an edition may declare (schema v2: Single, Multiple, None)
DeclaredYears ==
    {<<>>, <<0>>} \cup {<<y>> : y \in Years}
    \cup {<<BaseYear, BaseYear + 1>>, <<0, BaseYear>>, <<I32_MAX>>}

RECURSIVE MinNonZero(_)
MinNonZero(ys) ==
    IF ys = <<>> THEN 0
    ELSE LET rest == MinNonZero(Tail(ys))
         IN  IF Head(ys) = 0 THEN rest
             ELSE IF rest = 0 \/ Head(ys) < rest THEN Head(ys) ELSE rest

\* convert_to_jsonarray_v2: the year string of an edition
year_string(edition_years) ==
    IF MinNonZero(edition_years) > 0 THEN to_string(MinNonZero(edition_years))
    ELSE <<>>

\* the (year, allowed_years) pairs the loader of schema `version` can produce:
\* version 2 is convert_to_jsonarray_v2, every other one convert_to_jsonarray
LoadedYears(version) ==
    IF version = 2
        THEN {<<year_string(ys), ys>> : ys \in DeclaredYears}
        ELSE {<<to_string(y), <<>> >> : y \in {0, I32_MAX} \cup Years}

\* SourceRecord.year is any string of the reference corpus
SourceYears ==
    {to_string(y) : y \in Years}
    \cup {<<>>, <<"0">>, <<"x">>, <<"-">> \o to_string(BaseYear),
          to_string(I32_MAX),
          <<"-">> \o to_string(I32_MAX \div 10) \o <<"8">>}

SourceRecord(id, title, author, year) ==
    [id |-> id, title |-> title, author |-> author, year |-> year]

---------------------------------------------------------------------------
(* Text: characters, case, byte lengths, order *)

\* the characters of cards, titles and authors: two ASCII letters in both
\* cases, a space, three punctuation marks, and a letter of two UTF-8 bytes
\* ("E2", lowercase "e2"); elsewhere also LATIN CAPITAL LETTER A WITH STROKE
\* ("A2", U+023A, two bytes), whose lowercase ("a3", U+2C65) has three
Chars == {"a", "b", "A", "B", " ", ",", "/", ":", "E2", "e2"}

\* char::to_lowercase
LowerChar(c) ==
    CASE c = "A" -> "a" [] c = "B" -> "b" [] c = "E2" -> "e2"
      [] c = "A2" -> "a3" [] OTHER -> c

\* str::to_lowercase
to_lowercase(s) == [i \in 1..Len(s) |-> LowerChar(s[i])]

\* the number of UTF-8 bytes of a character
CharBytes(c) ==
    IF c \in {"E2", "e2", "sup2", "ar3", "A2"} THEN 2
    ELSE IF c \in {"c1", "a3"} THEN 3
    ELSE 1

\* str::len: the length in bytes
RECURSIVE ByteLen(_)
ByteLen(s) == IF s = <<>> THEN 0 ELSE CharBytes(Head(s)) + ByteLen(Tail(s))

\* the order of the characters' code points
CharCode(c) ==
    CASE c = " " -> 32 [] c = "," -> 44 [] c = "/" -> 47 [] c = ":" -> 58
      [] c \in Digit -> 48 + DigitVal(c)
      [] c = "A" -> 65 [] c = "B" -> 66 [] c = "a" -> 97
      [] c = "b" -> 98 [] c = "E2" -> 201 [] c = "e2" -> 233
      [] c = "." -> 46 [] c = "C" -> 67 [] c = "D" -> 68 [] c = "M" -> 77
      [] c = "O" -> 79 [] c = "P" -> 80 [] c = "S" -> 83 [] c = "X" -> 88
      [] c = "_" -> 95 [] c = "d" -> 100 [] c = "e" -> 101 [] c = "j" -> 106
      [] c = "m" -> 109 [] c = "n" -> 110 [] c = "o" -> 111 [] c = "p" -> 112
      [] c = "r" -> 114 [] c = "s" -> 115 [] c = "t" -> 116 [] c = "x" -> 120
      [] c = "u1" -> 1 [] c = "u2" -> 2 [] c = "u3" -> 3 [] c = "-" -> 45
      [] c = "sup2" -> 178 [] c = "ar3" -> 1635 [] c = "c1" -> 9312
      [] c = "A2" -> 570 [] c = "a3" -> 11365

\* str::cmp(x, y) = Less
RECURSIVE LexLess(_, _)
LexLess(x, y) ==
    IF y = <<>> THEN FALSE
    ELSE IF x = <<>> THEN TRUE
    ELSE IF Head(x) = Head(y) THEN LexLess(Tail(x), Tail(y))
    ELSE CharCode(Head(x)) < CharCode(Head(y))

\* str::contains: s occurs in kept as a substring
IsSubstring(s, kept) ==
    \E k \in 0..(Len(kept) - Len(s)) : SubSeq(kept, k + 1, k + Len(s)) = s

\* s[..end] for the largest char boundary end =< max_len
RECURSIVE truncate_string_to_unicode_boundary(_, _)
truncate_string_to_unicode_boundary(s, max_len) ==
    IF ByteLen(s) =< max_len THEN s
    ELSE truncate_string_to_unicode_boundary(SubSeq(s, 1, Len(s) - 1), max_len)

\* char::is_whitespace
is_whitespace(c) == c = " "

\* char::is_ascii_punctuation
is_ascii_punctuation(c) == c \in {",", "/", ":"}

\* str::trim_start
RECURSIVE trim_start(_)
trim_start(s) ==
    IF s # <<>> /\ is_whitespace(Head(s)) THEN trim_start(Tail(s)) ELSE s

\* str::trim_end
RECURSIVE trim_end(_)
trim_end(s) ==
    IF s # <<>> /\ is_whitespace(s[Len(s)])
        THEN trim_end(SubSeq(s, 1, Len(s) - 1)) ELSE s

\* str::trim
trim(s) == trim_end(trim_start(s))

\* the positions of the commas of a string
CommaPositions(s) == {i \in 1..Len(s) : s[i] = ","}

swap_author(author) ==
    IF Cardinality(CommaPositions(author)) = 1
        THEN LET k == CHOOSE i \in CommaPositions(author) : TRUE
             IN  trim(SubSeq(author, k + 1, Len(author))) \o <<" ">>
                 \o trim(SubSeq(author, 1, k - 1))
        ELSE author

\* title.trim_end_matches(|c| c.is_whitespace() || c.is_ascii_punctuation())
RECURSIVE trim_end_title(_)
trim_end_title(title) ==
    IF title # <<>> /\ (is_whitespace(title[Len(title)])
                        \/ is_ascii_punctuation(title[Len(title)]))
        THEN trim_end_title(SubSeq(title, 1, Len(title) - 1)) ELSE title

combine_title_and_author(title, author) ==
    IF title = <<>> /\ author = <<>> THEN <<>>
    ELSE IF title = <<>> THEN author
    ELSE IF author = <<>> THEN title
    ELSE trim_end_title(title) \o <<" ", "/", " ">> \o swap_author(author)

---------------------------------------------------------------------------
(* The overlap engine: src/src/overlap.rs.  State k of the automaton is   *)
(* element k + 1 of next, link and len.                                   *)

EmptyMap == [c \in {} |-> 0]

\* SuffixAutomaton::new
SuffixAutomaton_new ==
    [next |-> <<EmptyMap>>, link |-> <<0 - 1>>, len |-> <<0>>, last |-> 0]

\* add_char, first loop: insert c -> cur from p up the suffix links
RECURSIVE add_char_walk(_, _, _, _)
add_char_walk(sa, p, c, cur) ==
    IF p # 0 - 1 /\ c \notin DOMAIN sa.next[p + 1]
        THEN add_char_walk(
                [sa EXCEPT !.next[p + 1] = (c :> cur) @@ sa.next[p + 1]],
                sa.link[p + 1], c, cur)
        ELSE [sa |-> sa, p |-> p]

\* add_char, second loop: redirect c -> q to c -> clone from p2 up the links
RECURSIVE add_char_redirect(_, _, _, _, _)
add_char_redirect(sa, p2, c, q, clone) ==
    IF p2 # 0 - 1 /\ c \in DOMAIN sa.next[p2 + 1] /\ sa.next[p2 + 1][c] = q
        THEN add_char_redirect(
                [sa EXCEPT !.next[p2 + 1] = (c :> clone) @@ sa.next[p2 + 1]],
                sa.link[p2 + 1], c, q, clone)
        ELSE sa

add_char(sa0, c) ==
    LET cur == Len(sa0.next)
        sa1 == [sa0 EXCEPT !.next = Append(sa0.next, EmptyMap),
                           !.len = Append(sa0.len, sa0.len[sa0.last + 1] + 1),
                           !.link = Append(sa0.link, 0)]
        w == add_char_walk(sa1, sa1.last, c, cur)
        sa2 == w.sa
        p == w.p
    IN  IF p = 0 - 1
            THEN [sa2 EXCEPT !.link[cur + 1] = 0, !.last = cur]
        ELSE LET q == sa2.next[p + 1][c]
             IN  IF sa2.len[p + 1] + 1 = sa2.len[q + 1]
                    THEN [sa2 EXCEPT !.link[cur + 1] = q, !.last = cur]
                 ELSE LET clone == Len(sa2.next)
                          sa3 == [sa2 EXCEPT
                                    !.next = Append(sa2.next, sa2.next[q + 1]),
                                    !.len = Append(sa2.len, sa2.len[p + 1] + 1),
                                    !.link = Append(sa2.link, sa2.link[q + 1])]
                          sa4 == add_char_redirect(sa3, p, c, q, clone)
                      IN  [sa4 EXCEPT !.link[q + 1] = clone,
                                      !.link[cur + 1] = clone,
                                      !.last = cur]

\* SuffixAutomaton::build
RECURSIVE build_from(_, _)
build_from(sa, s) ==
    IF s = <<>> THEN sa ELSE build_from(add_char(sa, Head(s)), Tail(s))

build(s) == build_from(SuffixAutomaton_new, s)

\* a fallback that drops the whole match: back to the initial state
scan_fallback_to_root(sa, v, c) == 0

\* the scan's fallback: follow suffix links until c has a transition
RECURSIVE scan_fallback(_, _, _)
scan_fallback(sa, v, c) ==
    IF v # 0 /\ c \notin DOMAIN sa.next[v + 1]
        THEN scan_fallback(sa, sa.link[v + 1], c)
        ELSE v

\* maximal_overlaps, step 1: the longest match ending at each position of b
RECURSIVE scan(_, _, _, _, _, _)
scan(sa, b_chars, i, v, l, candidates) ==
    IF i > Len(b_chars) THEN candidates
    ELSE LET c == b_chars[i]
             vl == IF c \in DOMAIN sa.next[v + 1]
                       THEN [v |-> sa.next[v + 1][c], l |-> l + 1]
                   ELSE LET v2 == scan_fallback(sa, v, c)
                        IN  IF c \in DOMAIN sa.next[v2 + 1]
                                THEN [v |-> sa.next[v2 + 1][c],
                                      l |-> sa.len[v2 + 1] + 1]
                                ELSE [v |-> 0, l |-> 0]
         IN  scan(sa, b_chars, i + 1, vl.v, vl.l,
                  IF vl.l > 0
                      THEN candidates \cup {SubSeq(b_chars, i + 1 - vl.l, i)}
                      ELSE candidates)

\* the order of list.sort_by: longer (in bytes) first, then lexicographic
OverlapBefore(x, y) ==
    \/ ByteLen(x) > ByteLen(y)
    \/ ByteLen(x) = ByteLen(y) /\ LexLess(x, y)

RECURSIVE sorted_candidates(_)
sorted_candidates(set) ==
    IF set = {} THEN <<>>
    ELSE LET first == CHOOSE x \in set :
                          \A y \in set \ {x} : OverlapBefore(x, y)
         IN  <<first>> \o sorted_candidates(set \ {first})

\* step 2 without the containment test: every candidate is kept
filter_keeping_all(list, filtered) == filtered \o list

\* maximal_overlaps, step 2: keep s unless an already-kept string contains it
RECURSIVE filter_contained(_, _)
filter_contained(list, filtered) ==
    IF list = <<>> THEN filtered
    ELSE IF \E k \in 1..Len(filtered) : IsSubstring(Head(list), filtered[k])
        THEN filter_contained(Tail(list), filtered)
    ELSE filter_contained(Tail(list), Append(filtered, Head(list)))

maximal_overlaps(a, b) ==
    filter_contained(sorted_candidates(scan(build(a), b, 1, 0, 0, {})), <<>>)

---------------------------------------------------------------------------
(* Overlap score and its sigmoid *)

RECURSIVE SumByteLen(_)
SumByteLen(list) ==
    IF list = <<>> THEN 0 ELSE ByteLen(Head(list)) + SumByteLen(Tail(list))

Min(a, b) == IF a =< b THEN a ELSE b

overlap_score(cfg, source_string, input_string) ==
    IF ~IsSome(cfg.overlap_adjustment) THEN One
    ELSE LET overlap_threshold ==
                 Min(Unwrap(cfg.overlap_adjustment), ByteLen(input_string))
         IN  IF overlap_threshold = 0 THEN One
             ELSE LET overlap == maximal_overlaps(to_lowercase(source_string),
                                                  to_lowercase(input_string))
                      filtered_overlap ==
                          SelectSeq(overlap,
                                    LAMBDA o : ByteLen(o) >= overlap_threshold)
                  IN  IF filtered_overlap = <<>> \/ input_string = <<>> THEN 0
                      ELSE (SumByteLen(filtered_overlap) * One)
                               \div ByteLen(input_string)

\* 1 - 1 / (1 + exp(7.5 x - 2.8)) + 0.009 at x = 0, 0.05, ..., 1, in
\* thousandths
SigmoidTable ==
    <<66, 90, 123, 166, 223, 292, 374, 465, 558, 648, 730, 799, 854, 897,
      929, 953, 969, 981, 990, 995, 999>>

\* the sigmoid between two points of the table, by linear interpolation
Sigmoid(score) ==
    LET step == One \div 20
        k == score \div step
        r == score % step
    IN  SigmoidTable[k + 1]
            + ((SigmoidTable[k + 2] - SigmoidTable[k + 1]) * r) \div step

overlap_score_adjust(score) ==
    IF FLt(score, 0) THEN 0
    ELSE IF FGe(score, One) THEN One
    ELSE Sigmoid(score)

---------------------------------------------------------------------------
(* process_record: scan, shortlist, adjustments, z-scores, cuts *)

TOP_N == 10

\* MatchCandidate::new
MatchCandidate_new(id, similarity) ==
    [id |-> id, similarity |-> similarity, original_similarity |-> similarity,
     zscore |-> 0, overlap_score |-> 0, adjusted_overlap_score |-> 0,
     jaro_winkler_score |-> 0, jaro_winkler_author_score |-> 0]

\* FxHashMap::get
Get(map, key) == IF key \in DOMAIN map THEN Some(map[key]) ELSE None

\* process_one_item without the check of the reference exclusion set
process_one_item_unexcluded(cfg, input_combined_vector, self_dot, record, document, sdr) ==
    LET similarity ==
            calculate_similarity_score(cfg, record, Get(sdr, document.id),
                input_combined_vector, self_dot, document)
    IN  IF similarity = Panic THEN MatchCandidate_new(document.id, Panic)
        ELSE IF IsSome(cfg.similarity_threshold)
           /\ FLt(similarity, Unwrap(cfg.similarity_threshold))
           THEN MatchCandidate_new(document.id, 0)
           ELSE MatchCandidate_new(document.id, similarity)

process_one_item(cfg, input_combined_vector, self_dot, record, document, sdr) ==
    IF Contains(cfg.excluded_ids, document.id)
        THEN MatchCandidate_new(document.id, 0)
    ELSE LET similarity ==
                 calculate_similarity_score(cfg, record, Get(sdr, document.id),
                     input_combined_vector, self_dot, document)
         IN  IF similarity = Panic THEN MatchCandidate_new(document.id, Panic)
             ELSE IF IsSome(cfg.similarity_threshold)
                /\ FLt(similarity, Unwrap(cfg.similarity_threshold))
                THEN MatchCandidate_new(document.id, 0)
                ELSE MatchCandidate_new(document.id, similarity)

\* the largest member of a nonempty set of numbers
MaxOf(set) == CHOOSE m \in set : \A x \in set : x =< m

\* a stable sort by similarity, descending
RECURSIVE stable_by_similarity(_, _)
stable_by_similarity(list, keys) ==
    IF keys = {} THEN <<>>
    ELSE SelectSeq(list, LAMBDA c : c.similarity = MaxOf(keys))
         \o stable_by_similarity(list, keys \ {MaxOf(keys)})

\* a stable sort by zscore, descending
RECURSIVE stable_by_zscore(_, _)
stable_by_zscore(list, keys) ==
    IF keys = {} THEN <<>>
    ELSE SelectSeq(list, LAMBDA c : c.zscore = MaxOf(keys))
         \o stable_by_zscore(list, keys \ {MaxOf(keys)})

\* top_n.sort_by(|a, b| b.similarity.partial_cmp(&a.similarity).unwrap()):
\* sorting two or more elements compares every one of them, and unwrap
\* panics on the None of a NaN
sort_by_similarity(list) ==
    IF \E i, j \in 1..Len(list) :
          i # j /\ partial_cmp(list[j].similarity, list[i].similarity) = None
        THEN [panicked |-> TRUE, list |-> <<>>]
        ELSE [panicked |-> FALSE,
              list |-> stable_by_similarity(list,
                           {list[i].similarity : i \in 1..Len(list)})]

\* the comparisons of the sort, with the list left in the order it has
sort_by_zscore_keeping_order(list) ==
    [panicked |-> \E i, j \in 1..Len(list) :
                    i # j /\ partial_cmp(list[j].zscore, list[i].zscore) = None,
     list |-> list]

\* z_scores.sort_by(|a, b| b.zscore.partial_cmp(&a.zscore).unwrap())
sort_by_zscore(list) ==
    IF \E i, j \in 1..Len(list) :
          i # j /\ partial_cmp(list[j].zscore, list[i].zscore) = None
        THEN [panicked |-> TRUE, list |-> <<>>]
        ELSE [panicked |-> FALSE,
              list |-> stable_by_zscore(list,
                           {list[i].zscore : i \in 1..Len(list)})]

\* Vec::truncate
truncate(list, n) == SubSeq(list, 1, Min(n, Len(list)))

apply_overlap_score(cfg, top_n, input_record, sdr) ==
    IF ~IsSome(cfg.overlap_adjustment) THEN top_n
    ELSE [i \in 1..Len(top_n) |->
            IF top_n[i].id \in DOMAIN sdr
                THEN LET score == overlap_score(cfg, sdr[top_n[i].id].title,
                                                input_record.title)
                     IN  [top_n[i] EXCEPT
                            !.overlap_score = score,
                            !.adjusted_overlap_score = overlap_score_adjust(score),
                            !.similarity = FMul(@, overlap_score_adjust(score))]
                ELSE top_n[i]]

\* the two strings handed to jaro_winkler for the titles of a candidate
jaro_title_pair(cfg, input_record, source_record) ==
    <<to_lowercase(source_record.title),
      IF cfg.jaro_winkler_truncate \in {"Title", "Both"}
          THEN to_lowercase(truncate_string_to_unicode_boundary(
                   input_record.title, ByteLen(source_record.title)))
          ELSE to_lowercase(input_record.title)>>

\* the two strings handed to jaro_winkler for the authors of a candidate
jaro_author_pair(cfg, input_record, source_record) ==
    <<to_lowercase(source_record.author),
      IF cfg.jaro_winkler_truncate \in {"Author", "Both"}
          THEN to_lowercase(truncate_string_to_unicode_boundary(
                   input_record.author, ByteLen(source_record.author)))
          ELSE to_lowercase(input_record.author)>>

\* jw is the jaro_winkler crate's function, a table over the pairs it is
\* called on
apply_jaro_winkler(cfg, top_n, input_record, sdr, jw) ==
    IF ~cfg.jaro_winkler_adjustment /\ ~cfg.jaro_winkler_author_adjustment
        THEN top_n
    ELSE LET titled ==
                 IF cfg.jaro_winkler_adjustment
                     THEN [i \in 1..Len(top_n) |->
                            IF top_n[i].id \in DOMAIN sdr
                                THEN LET jw_score ==
                                             jw[jaro_title_pair(cfg, input_record,
                                                                sdr[top_n[i].id])]
                                     IN  [top_n[i] EXCEPT
                                            !.jaro_winkler_score = jw_score,
                                            !.similarity = FMul(@, jw_score)]
                                ELSE top_n[i]]
                     ELSE top_n
         IN  IF cfg.jaro_winkler_author_adjustment
                 THEN [i \in 1..Len(titled) |->
                        IF titled[i].id \in DOMAIN sdr
                           /\ ~(sdr[titled[i].id].author = <<>>
                                \/ input_record.author = <<>>)
                            THEN LET jw_score ==
                                         jw[jaro_author_pair(cfg, input_record,
                                                             sdr[titled[i].id])]
                                 IN  [titled[i] EXCEPT
                                        !.jaro_winkler_author_score = jw_score,
                                        !.similarity = FMul(@, jw_score)]
                            ELSE titled[i]]
                 ELSE titled

\* data[lo..hi].iter().map(|x| x.similarity).sum(), by halves
RECURSIVE SumSimilarity(_, _, _)
SumSimilarity(data, lo, hi) ==
    IF lo > hi THEN 0
    ELSE IF lo = hi THEN data[lo].similarity
    ELSE FAdd(SumSimilarity(data, lo, (lo + hi) \div 2),
              SumSimilarity(data, ((lo + hi) \div 2) + 1, hi))

\* the sum of (similarity - mean)^2 over data[lo..hi], in millionths
RECURSIVE SumSquares(_, _, _, _)
SumSquares(data, mean, lo, hi) ==
    IF lo > hi THEN 0
    ELSE IF lo = hi
        THEN LET d == FSub(data[lo].similarity, mean)
             IN  IF IsNaN(d) THEN NaN ELSE d * d
    ELSE LET left == SumSquares(data, mean, lo, (lo + hi) \div 2)
             right == SumSquares(data, mean, ((lo + hi) \div 2) + 1, hi)
         IN  IF IsNaN(left) \/ IsNaN(right) THEN NaN ELSE left + right

\* the mean of the similarities
z_mean(data) ==
    LET sum == SumSimilarity(data, 1, Len(data))
    IN  IF IsNaN(sum) THEN NaN ELSE sum \div Len(data)

\* the population standard deviation of the similarities
z_std_dev(data) ==
    LET squares == SumSquares(data, z_mean(data), 1, Len(data))
    IN  IF IsNaN(squares) THEN NaN ELSE ISqrt(squares \div Len(data))

calculate_z_scores(data) ==
    IF Len(data) = 0 THEN <<>>
    ELSE LET mean == z_mean(data)
             std_dev == z_std_dev(data)
         IN  [i \in 1..Len(data) |->
                [data[i] EXCEPT !.zscore =
                    IF std_dev = 0 THEN 0
                    ELSE IF IsNaN(std_dev) \/ IsNaN(data[i].similarity) THEN NaN
                    ELSE ((data[i].similarity - mean) * One) \div std_dev]]

\* the z filter with >= in place of >
retain_from_z_threshold(cfg, z_scores) ==
    IF IsSome(cfg.z_threshold)
        THEN SelectSeq(z_scores, LAMBDA c : FGe(c.zscore, Unwrap(cfg.z_threshold)))
        ELSE z_scores

\* if let Some(z_threshold) = config.options.z_threshold
\*     { z_scores.retain(|candidate| candidate.zscore > z_threshold) }
retain_above_z_threshold(cfg, z_scores) ==
    IF IsSome(cfg.z_threshold)
        THEN SelectSeq(z_scores, LAMBDA c : FGt(c.zscore, Unwrap(cfg.z_threshold)))
        ELSE z_scores

\* process_record from the collected vector on: the two sorts, the
\* adjustments, the z-scores and the cuts; the result keeps the stages: the
\* gathered candidates, the shortlist with its z-scores, and the returned
\* list
process_gathered(cfg, record, gathered, sdr, jw) ==
    LET sorted == sort_by_similarity(gathered)
        adjusted == apply_jaro_winkler(cfg,
                        apply_overlap_score(cfg, truncate(sorted.list, TOP_N * 20),
                                            record, sdr),
                        record, sdr, jw)
        z_scores == calculate_z_scores(adjusted)
        z_sorted == sort_by_zscore(z_scores)
        z_kept == retain_above_z_threshold(cfg, z_sorted.list)
        positive == SelectSeq(truncate(z_kept, TOP_N),
                              LAMBDA c : FGt(c.similarity, 0))
        top == IF IsSome(cfg.similarity_threshold)
                  /\ (IsSome(cfg.overlap_adjustment) \/ cfg.jaro_winkler_adjustment)
                   THEN SelectSeq(positive,
                            LAMBDA c : FGe(c.similarity,
                                           Unwrap(cfg.similarity_threshold)))
                   ELSE positive
    IN  IF (\E i \in 1..Len(gathered) : gathered[i].similarity = Panic)
           \/ sorted.panicked \/ z_sorted.panicked
            THEN [panicked |-> TRUE, gathered |-> gathered, shortlist |-> <<>>,
                  z_kept |-> <<>>, top |-> <<>>]
            ELSE [panicked |-> FALSE, gathered |-> gathered,
                  shortlist |-> z_scores, z_kept |-> z_kept, top |-> top]

\* process_record from the weighted-average vector of the input on, the
\* items taken in dataset order
process_record(cfg, record, input_combined_vector, dataset, sdr, jw) ==
    process_gathered(cfg, record,
        [i \in 1..Len(dataset) |->
            process_one_item(cfg, input_combined_vector,
                             self_norm(input_combined_vector), record,
                             dataset[i], sdr)],
        sdr, jw)

---------------------------------------------------------------------------
(* match_json_zip: exclusion, labels, statistics, output records *)

\* JsonRecord.edition of an input without editions (zipfile.rs)
NO_EDITION == 9999999

\* JsonRecord.edition of an input that is no valid JSON record (zipfile.rs)
INVALID_JSON == 9999998

\* the exclusion check that compares the card alone
input_is_excluded_by_card(cfg, card, edition) ==
    Contains(cfg.input_excluded_ids, trim(card))

\* format!("{}:{}", card, edition).trim() is in input_excluded_ids
input_is_excluded(cfg, card, edition) ==
    Contains(cfg.input_excluded_ids, trim(card \o <<":">> \o to_string(edition)))

\* get_stats with < and >= the other way round for a single candidate
get_stats_inclusive(cfg, top) ==
    IF ~IsSome(cfg.similarity_threshold) THEN "NA"
    ELSE IF Len(top) = 0 THEN "NoMatch"
    ELSE IF Len(top) = 1
        THEN IF IsSome(cfg.min_single_similarity)
                /\ FLe(top[1].similarity, Unwrap(cfg.min_single_similarity))
                THEN "Unqualified" ELSE "SingleMatch"
    ELSE IF IsSome(cfg.min_multiple_similarity)
            /\ ~(\A i \in 1..Len(top) :
                    FGe(top[i].similarity, Unwrap(cfg.min_multiple_similarity)))
        THEN "UnqualifiedMultipleMatches"
        ELSE "MultipleMatches"

get_stats(cfg, top) ==
    IF IsSome(cfg.similarity_threshold)
        THEN IF Len(top) = 0 THEN "NoMatch"
             ELSE IF Len(top) = 1
                THEN IF IsSome(cfg.min_single_similarity)
                        THEN IF FLt(top[1].similarity,
                                    Unwrap(cfg.min_single_similarity))
                                THEN "Unqualified"
                                ELSE "SingleMatch"
                        ELSE "SingleMatch"
             ELSE IF IsSome(cfg.min_multiple_similarity)
                THEN IF \A i \in 1..Len(top) :
                            FGe(top[i].similarity,
                                Unwrap(cfg.min_multiple_similarity))
                        THEN "MultipleMatches"
                        ELSE "UnqualifiedMultipleMatches"
                ELSE "MultipleMatches"
        ELSE "NA"

\* the variants of MatchStat
MatchStat ==
    {"SingleMatch", "MultipleMatches", "UnqualifiedMultipleMatches", "NoMatch",
     "Unqualified", "NoEdition", "Excluded", "InvalidJSON", "NA"}

\* MatchStatistics::default()
MatchStatistics_default ==
    [match_types |-> <<>>, number_of_records |-> 0, cards |-> {}]

\* match_types.entry(stat).or_insert(0) += 1
CountEntry(match_types, stat) ==
    IF stat \in DOMAIN match_types
        THEN [match_types EXCEPT ![stat] = @ + 1]
        ELSE [s \in DOMAIN match_types \cup {stat} |->
                IF s = stat THEN 1 ELSE match_types[s]]

\* update that returns early for NoEdition only
update_counting_invalid(self, stat, card) ==
    IF stat = "NoEdition"
        THEN [self EXCEPT !.cards = @ \cup {card}]
        ELSE [self EXCEPT !.match_types = CountEntry(@, stat),
                          !.number_of_records = @ + 1,
                          !.cards = @ \cup {card}]

\* MatchStatistics::update
update(self, stat, card) ==
    IF stat = "NoEdition"
        THEN [self EXCEPT !.cards = @ \cup {card}]
    ELSE IF stat = "InvalidJSON"
        THEN [self EXCEPT !.cards = @ \cup {card}]
    ELSE [self EXCEPT !.match_types = CountEntry(@, stat),
                      !.number_of_records = @ + 1,
                      !.cards = @ \cup {card}]

\* OutputRecord::new
OutputRecord_new(card, record, top, stats, sdr) ==
    [card |-> card,
     record |-> IF stats \in {"NoEdition", "InvalidJSON"}
                    THEN [record EXCEPT !.edition = 0] ELSE record,
     top |-> [i \in 1..Len(SelectSeq(top, LAMBDA c : c.id \in DOMAIN sdr)) |->
                LET c == SelectSeq(top, LAMBDA d : d.id \in DOMAIN sdr)[i]
                IN  [id |-> c.id, similarity |-> c.similarity,
                     original_similarity |-> c.original_similarity,
                     zscore |-> c.zscore, overlap_score |-> c.overlap_score,
                     adjusted_overlap_score |-> c.adjusted_overlap_score,
                     jaro_winkler_score |-> c.jaro_winkler_score,
                     jaro_winkler_author_score |-> c.jaro_winkler_author_score,
                     source_record |-> Some(sdr[c.id])]],
     stats |-> stats]

---------------------------------------------------------------------------
(* Reference data of the runs *)

\* the id of the k-th reference document
DocId(k) == "D" \o ToString(k)

\* its weighted-average vector: norm 5
DocVector(k) ==
    CASE k % 4 = 1 -> <<<<1, 3>>, <<2, 4>>>>
      [] k % 4 = 2 -> <<<<1, 4>>, <<2, 3>>>>
      [] k % 4 = 3 -> <<<<2, 5>>>>
      [] OTHER -> <<<<3, 5>>>>

DocTitle(k) ==
    CASE k % 3 = 1 -> <<"a", "b">>
      [] k % 3 = 2 -> <<"B", "a">>
      [] OTHER -> <<"a", "b", " ", "b", "a">>

DocAuthor(k) == IF k % 2 = 1 THEN <<"a">> ELSE <<>>

DocYear(k) ==
    CASE k % 4 = 1 -> to_string(BaseYear)
      [] k % 4 = 2 -> to_string(BaseYear + 1)
      [] k % 4 = 3 -> <<"x">>
      [] OTHER -> to_string(BaseYear)

\* precalc_weighted_average_vectors_for_source over n documents
Dataset(n) == [k \in 1..n |-> DatasetWeightedVector(DocId(k), DocVector(k))]

\* a document whose weighted-average vector has norm 0
ZeroDoc == DatasetWeightedVector("Z", <<<<1, 0>>>>)

\* SourceData.records for documents 1..n and Z, without the ids of `missing`
SourceData(n, missing) ==
    [id \in ({DocId(k) : k \in 1..n} \cup {"Z"}) \ missing |->
        IF id = "Z" THEN SourceRecord("Z", <<"a", "b">>, <<"a">>, to_string(BaseYear))
        ELSE LET k == CHOOSE j \in 1..n : DocId(j) = id
             IN  SourceRecord(id, DocTitle(k), DocAuthor(k), DocYear(k))]

\* the scores the jaro_winkler crate may return for a pair: 1.0 on equal
\* strings, anything in [0, 1] otherwise
JaroScores(pair) == IF pair[1] = pair[2] THEN {One} ELSE {0, One \div 2, (One * 9) \div 10}

\* the tables of the jaro_winkler function over the pairs of one call
JaroTables(pairs) ==
    {jw \in [pairs -> {0, One \div 2, (One * 9) \div 10, One}] :
        \A pair \in pairs : jw[pair] \in JaroScores(pair)}

\* the pairs apply_jaro_winkler looks up for a record
JaroPairs(cfg, record, sdr) ==
    (IF cfg.jaro_winkler_adjustment
        THEN {jaro_title_pair(cfg, record, sdr[id]) : id \in DOMAIN sdr}
        ELSE {})
    \cup
    (IF cfg.jaro_winkler_author_adjustment /\ record.author # <<>>
        THEN {jaro_author_pair(cfg, record, sdr[id]) :
                id \in {d \in DOMAIN sdr : sdr[d].author # <<>>}}
        ELSE {})

---------------------------------------------------------------------------
(* calculate_similarity_score as a function of its arguments *)

Idle == "idle"

ScoreOptions ==
    {[DefaultOptions EXCEPT !.force_year = f, !.year_tolerance = t,
                            !.year_tolerance_penalty = p,
                            !.json_schema_version = v,
                            !.overflow_checks = oc] :
        f \in BOOLEAN, oc \in BOOLEAN,
        t \in {None} \cup {Some(n) : n \in 0..MaxTolerance},
        p \in {One \div 4, (One * 3) \div 5},
        v \in {1, 2, 3}}

InitScore ==
    /\ config \in ScoreOptions
    /\ dataset_vectors = Idle
    /\ source_data_records = Idle
    /\ statistics = Idle
    /\ output_records = Idle
    /\ scored = Idle
    /\ records = Idle
    /\ updates = Idle
    /\ pc = "score"
    /\ \E ya \in LoadedYears(config.json_schema_version),
          so \in {None} \cup {Some(SourceRecord("A", <<>>, <<>>, sy)) :
                                   sy \in SourceYears},
          iv \in {<<<<1, 3>>, <<2, 4>>>>, <<<<2, 5>>>>},
          dv \in {<<<<1, 4>>, <<2, 3>>>>, <<<<3, 5>>>>} :
            call = [record |-> JsonRecord(0, <<>>, <<>>, ya[1], ya[2]),
                    source_record_opt |-> so,
                    input_combined_vector |-> iv,
                    document |-> DatasetWeightedVector("A", dv),
                    result |-> None]

\* the call of calculate_similarity_score in process_one_item
Score ==
    /\ pc = "score"
    /\ call.result = None
    /\ call' = [call EXCEPT !.result =
                  Some(calculate_similarity_score(config, call.record,
                           call.source_record_opt, call.input_combined_vector,
                           self_norm(call.input_combined_vector),
                           call.document))]
    /\ UNCHANGED <<config, dataset_vectors, source_data_records, pc,
                   statistics, output_records, scored, records, updates>>

NextScore == Score

SpecScore == InitScore /\ [][NextScore]_vars

---------------------------------------------------------------------------
(* Claims about the year gate, under SpecScore *)

Scored == pc = "score" /\ call.result # None

\* the un-gated base cosine of the call
BaseCosine ==
    cosine_similarity(call.input_combined_vector,
                      self_norm(call.input_combined_vector),
                      call.document.vector, call.document.dot)

\* the call is gated: force_year, an input year other than "0", and a
\* reference that has a SourceData record
Gated ==
    /\ Scored
    /\ config.force_year
    /\ call.record.year # <<"0">>
    /\ IsSome(call.source_record_opt)

RefYear == Unwrap(call.source_record_opt).year

\* what the gate of tol == 0 yields: membership in allowed_years under the
\* loader of schema v2, equality of the year strings under that of schema v1
ZeroToleranceGate ==
    IF config.json_schema_version = 2
        THEN IF IsSome(ParseU32(RefYear))
                /\ Contains(call.record.allowed_years, Unwrap(ParseU32(RefYear)))
             THEN BaseCosine ELSE 0
        ELSE IF call.record.year = RefYear THEN BaseCosine ELSE 0

\* C4: with force_year, an input year other than "0" and tol == 0, where an
\* unset year_tolerance counts as 0, the score is the base cosine when the
\* reference year passes the gate (membership in allowed_years under schema
\* v2, string equality under schema v1) and 0 otherwise.
C4_ZeroToleranceGate ==
    (Gated /\ config.json_schema_version \in {1, 2}
           /\ config.year_tolerance \in {None, Some(0)})
        => Unwrap(call.result) = ZeroToleranceGate

\* the part of C4 the code does implement: year_tolerance unset
C4_UnsetToleranceGate ==
    (Gated /\ config.json_schema_version \in {1, 2}
           /\ config.year_tolerance = None)
        => Unwrap(call.result) = ZeroToleranceGate

BothYearsParse == IsSome(ParseI32(call.record.year)) /\ IsSome(ParseI32(RefYear))

InputYear == Unwrap(ParseI32(call.record.year))

ReferenceYear == Unwrap(ParseI32(RefYear))

\* the difference of the two years is outside i32, or has no absolute value
\* in i32
DeltaOverflows ==
    \/ sub_overflows(InputYear, ReferenceYear)
    \/ InputYear - ReferenceYear = I32_MIN

\* the year difference |delta| as an integer, when it is inside i32
YearDelta == Abs(InputYear - ReferenceYear)

\* |delta| > tol, as integers
BeyondTolerance ==
    DeltaOverflows \/ YearDelta > Unwrap(config.year_tolerance)

PenaltyFactor ==
    IF One - YearDelta * config.year_tolerance_penalty > 0
        THEN One - YearDelta * config.year_tolerance_penalty
        ELSE 0

WithinTolerance ==
    /\ Gated
    /\ IsSome(config.year_tolerance)
    /\ Unwrap(config.year_tolerance) > 0

\* the score C5 states for the call
TolerancePenalty ==
    LET result == Unwrap(call.result)
    IN  /\ (~BothYearsParse \/ BeyondTolerance) => result = 0
        /\ (BothYearsParse /\ ~BeyondTolerance)
            => /\ IsNaN(BaseCosine) => IsNaN(result)
               /\ ~IsNaN(BaseCosine)
                    => /\ result * One = BaseCosine * PenaltyFactor
                       /\ (BaseCosine >= 0 => result >= 0)
                       /\ (YearDelta = 2
                           /\ config.year_tolerance_penalty * 4 = One)
                            => 2 * result = BaseCosine

\* C5: with force_year, year_tolerance = tol > 0 and an input year other
\* than "0", in both schemas, the score is 0 when a year does not parse or
\* |delta| > tol, and otherwise base * max(0, 1 - |delta| * penalty): half
\* the base for |delta| = 2 and penalty 0.25, and never negative for a
\* nonnegative base.
C5_TolerancePenalty == WithinTolerance => TolerancePenalty

\* the part of C5 the code does implement: years whose difference is
\* inside i32
C5_TolerancePenaltyInsideI32 ==
    (WithinTolerance /\ ~(BothYearsParse /\ DeltaOverflows)) => TolerancePenalty

\* |delta| = 2 within the tolerance halves a base of 0.96
C5_HalvedBase ==
    /\ WithinTolerance
    /\ BothYearsParse
    /\ ~DeltaOverflows
    /\ YearDelta = 2
    /\ config.year_tolerance_penalty * 4 = One
    /\ BaseCosine = 960
    /\ Unwrap(call.result) = 480

\* C6: with force_year and the input year "0" the score is the un-gated
\* base cosine, whatever the reference year, the schema version,
\* allowed_years and year_tolerance are.
C6_YearZeroUngated ==
    (Scored /\ config.force_year /\ call.record.year = <<"0">>)
        => Unwrap(call.result) = BaseCosine

\* C6 happens: a year "0" input scored against a reference of another year
C6_Witness ==
    /\ Scored
    /\ config.force_year
    /\ call.record.year = <<"0">>
    /\ IsSome(call.source_record_opt)
    /\ RefYear = to_string(BaseYear)
    /\ Unwrap(call.result) = 960

---------------------------------------------------------------------------
(* process_record on one input record *)

SmallDocs == 4

MediumDocs == TOP_N + 2

BigDocs == (TOP_N * 20) + 1

\* the option settings of the runs on the small reference sets
RecordOptions ==
    {[DefaultOptions EXCEPT
        !.similarity_threshold = st, !.z_threshold = zt,
        !.overlap_adjustment = oa, !.jaro_winkler_adjustment = jwt,
        !.jaro_winkler_author_adjustment = jwa,
        !.jaro_winkler_truncate = tr, !.excluded_ids = ex,
        !.force_year = fy, !.year_tolerance = IF fy THEN Some(1) ELSE None] :
        st \in {None, Some((One * 7) \div 10)},
        zt \in {None, Some(0), Some(One)},
        oa \in {None, Some(2)},
        jwt \in BOOLEAN, jwa \in BOOLEAN,
        tr \in {"None", "Both"},
        ex \in {<<>>, <<DocId(1)>>},
        fy \in BOOLEAN}

\* the option settings of the runs on the larger reference sets
LargeOptions ==
    {[DefaultOptions EXCEPT
        !.similarity_threshold = st, !.z_threshold = zt,
        !.overlap_adjustment = oa] :
        st \in {None, Some((One * 7) \div 10)},
        zt \in {None, Some(0), Some(One)},
        oa \in {None, Some(2)}}

\* the input records and their weighted-average vectors
InputRecords ==
    {JsonRecord(0, t, a, y, <<>>) :
        t \in {<<"a", "b">>, <<"A", "b", " ", "b", "a">>},
        a \in {<<"a">>, <<"b">>, <<>>},
        y \in {to_string(BaseYear), <<"0">>}}

InputVectors == {<<<<1, 3>>, <<2, 4>>>>, <<<<2, 5>>>>, <<>>}

InitRecord ==
    /\ pc = "record"
    /\ statistics = Idle
    /\ output_records = Idle
    /\ scored = Idle
    /\ records = Idle
    /\ updates = Idle
    /\ \/ /\ config \in RecordOptions
          /\ \/ /\ dataset_vectors = Dataset(SmallDocs)
                /\ source_data_records \in
                       {SourceData(SmallDocs, {}), SourceData(SmallDocs, {DocId(2)})}
             \/ /\ dataset_vectors \in {Dataset(2) \o <<ZeroDoc>>, <<ZeroDoc>>}
                /\ source_data_records = SourceData(2, {})
          /\ \E r \in InputRecords, v \in InputVectors :
                call = [record |-> r, input_combined_vector |-> v, result |-> None]
       \/ /\ config \in LargeOptions
          /\ \E n \in {MediumDocs, BigDocs} :
                /\ dataset_vectors = Dataset(n)
                /\ source_data_records = SourceData(n, {})
          /\ call = [record |-> JsonRecord(0, <<"a", "b">>, <<"a">>, <<"0">>, <<>>),
                     input_combined_vector |-> <<<<1, 3>>, <<2, 4>>>>,
                     result |-> None]

\* one call of process_record; the jaro_winkler crate's answers are any the
\* crate may give
ProcessRecord ==
    /\ pc = "record"
    /\ call.result = None
    /\ \E jw \in JaroTables(JaroPairs(config, call.record, source_data_records)) :
          call' = [call EXCEPT !.result =
                      Some(process_record(config, call.record,
                               call.input_combined_vector, dataset_vectors,
                               source_data_records, jw))]
    /\ UNCHANGED <<config, dataset_vectors, source_data_records, pc,
                   statistics, output_records, scored, records, updates>>

NextRecord == ProcessRecord

SpecRecord == InitRecord /\ [][NextRecord]_vars

---------------------------------------------------------------------------
(* get_stats on a final candidate list *)

\* the candidate lists have at most MaxCandidates members
MaxCandidates == 3

\* the similarities of returned candidates: process_record keeps those > 0
FinalSimilarities == {1, One \div 2, (One * 7) \div 10, (One * 9) \div 10, One}

\* the lists of at most n candidates, ids in dataset order
RECURSIVE CandidateLists(_)
CandidateLists(n) ==
    IF n = 0 THEN {<<>>}
    ELSE CandidateLists(n - 1)
         \cup {Append(l, MatchCandidate_new(DocId(n), x)) :
                 l \in {m \in CandidateLists(n - 1) : Len(m) = n - 1},
                 x \in FinalSimilarities}

StatsOptions ==
    {[DefaultOptions EXCEPT
        !.similarity_threshold = st, !.min_single_similarity = ms,
        !.min_multiple_similarity = mm] :
        st \in {None, Some(One \div 2)},
        ms \in {None, Some((One * 7) \div 10), Some((One * 9) \div 10)},
        mm \in {None, Some((One * 7) \div 10), Some((One * 9) \div 10)}}

InitGetStats ==
    /\ pc = "get_stats"
    /\ config \in StatsOptions
    /\ dataset_vectors = Idle
    /\ source_data_records = Idle
    /\ statistics = Idle
    /\ output_records = Idle
    /\ scored = Idle
    /\ records = Idle
    /\ updates = Idle
    /\ \E top \in CandidateLists(MaxCandidates) :
          call = [top |-> top, result |-> None]

\* the call of get_stats in match_json_zip
GetStats ==
    /\ pc = "get_stats"
    /\ call.result = None
    /\ call' = [call EXCEPT !.result = Some(get_stats(config, call.top))]
    /\ UNCHANGED <<config, dataset_vectors, source_data_records, pc,
                   statistics, output_records, scored, records, updates>>

NextGetStats == GetStats

SpecGetStats == InitGetStats /\ [][NextGetStats]_vars

\* C1: get_stats labels a list as the classification table says: NA when
\* similarity_threshold is unset; otherwise NoMatch for an empty list;
\* for one candidate Unqualified if its similarity < min_single_similarity
\* and SingleMatch otherwise, also when min_single_similarity is unset; for
\* two or more UnqualifiedMultipleMatches if any candidate has a similarity
\* < min_multiple_similarity and MultipleMatches otherwise
C1_ClassificationTable ==
    (pc = "get_stats" /\ call.result # None) =>
        LET top == call.top
            label == Unwrap(call.result)
            below_single ==
                /\ IsSome(config.min_single_similarity)
                /\ top[1].similarity < Unwrap(config.min_single_similarity)
            below_multiple ==
                /\ IsSome(config.min_multiple_similarity)
                /\ \E i \in 1..Len(top) :
                      top[i].similarity < Unwrap(config.min_multiple_similarity)
        IN  /\ label = "NA" <=> ~IsSome(config.similarity_threshold)
            /\ IsSome(config.similarity_threshold) =>
                  /\ label = "NoMatch" <=> Len(top) = 0
                  /\ label = "Unqualified" <=> (Len(top) = 1 /\ below_single)
                  /\ label = "SingleMatch" <=> (Len(top) = 1 /\ ~below_single)
                  /\ label = "UnqualifiedMultipleMatches"
                        <=> (Len(top) >= 2 /\ below_multiple)
                  /\ label = "MultipleMatches"
                        <=> (Len(top) >= 2 /\ ~below_multiple)

\* a single candidate exactly at min_single_similarity is a SingleMatch
C1_Witness ==
    /\ pc = "get_stats"
    /\ IsSome(config.similarity_threshold)
    /\ IsSome(config.min_single_similarity)
    /\ Len(call.top) = 1
    /\ call.top[1].similarity = Unwrap(config.min_single_similarity)
    /\ call.result = Some("SingleMatch")

---------------------------------------------------------------------------
(* MatchStatistics::update under any sequence of calls *)

\* the sequences of update calls have at most MaxUpdates members
MaxUpdates == 3

\* the cards (names of the input's .json files)
Cards == {<<"a">>, <<"b">>}

InitUpdate ==
    /\ pc = "update"
    /\ config = Idle
    /\ dataset_vectors = Idle
    /\ source_data_records = Idle
    /\ statistics = MatchStatistics_default
    /\ output_records = Idle
    /\ scored = Idle
    /\ records = Idle
    /\ call = Idle
    /\ updates = <<>>

\* one call statistics.update(&stat, &card)
Update ==
    /\ pc = "update"
    /\ Len(updates) < MaxUpdates
    /\ \E stat \in MatchStat, card \in Cards :
          /\ statistics' = update(statistics, stat, card)
          /\ updates' = Append(updates, [stat |-> stat, card |-> card])
    /\ UNCHANGED <<config, dataset_vectors, source_data_records, pc,
                   output_records, scored, call, records>>

NextUpdate == Update

SpecUpdate == InitUpdate /\ [][NextUpdate]_vars

\* the calls whose label is counted
CountedUpdates ==
    {i \in 1..Len(updates) : updates[i].stat \notin {"NoEdition", "InvalidJSON"}}

\* the sum of the counters of match_types
RECURSIVE SumCounters(_, _)
SumCounters(match_types, labels) ==
    IF labels = {} THEN 0
    ELSE LET l == CHOOSE x \in labels : TRUE
         IN  match_types[l] + SumCounters(match_types, labels \ {l})

\* C3: after any sequence of update calls, number_of_records is the number
\* of calls whose label is neither NoEdition nor InvalidJSON (Excluded ones
\* are counted), it is the sum of the counters of match_types, match_types
\* has no entry for NoEdition or InvalidJSON, and the card set holds the
\* card of every call
C3_UpdateCounts ==
    pc = "update" =>
        /\ statistics.number_of_records = Cardinality(CountedUpdates)
        /\ statistics.number_of_records
              = SumCounters(statistics.match_types, DOMAIN statistics.match_types)
        /\ \A l \in DOMAIN statistics.match_types :
              /\ l \notin {"NoEdition", "InvalidJSON"}
              /\ statistics.match_types[l]
                    = Cardinality({i \in CountedUpdates : updates[i].stat = l})
        /\ statistics.cards = {updates[i].card : i \in 1..Len(updates)}

\* an Excluded call is counted and an InvalidJSON call only brings its card
C3_Witness ==
    /\ pc = "update"
    /\ \E i, j \in 1..Len(updates) :
          /\ updates[i].stat = "Excluded"
          /\ updates[j].stat = "InvalidJSON"
          /\ updates[j].card # updates[i].card
    /\ statistics.number_of_records = Len(updates) - 1
    /\ Cardinality(statistics.cards) = 2

---------------------------------------------------------------------------
(* match_json_zip: the loop over the records of the input *)

\* a record has at most MaxEditions editions
MaxEditions == 2

\* the file names of the input in the order of the loader's BTreeMap
CardOrder == << <<" ", "a">>, <<"a">>, <<"b">> >>

\* the editions one file expands to: none when the file is absent, the
\* indices 0..N-1, or one of the two sentinels
Expansions ==
    {<<>>, <<NO_EDITION>>, <<INVALID_JSON>>}
    \cup {[i \in 1..n |-> i - 1] : n \in 1..MaxEditions}

\* the records of one file, each with the weighted-average vector that
\* vectorize::process_record and weighted_averaged_vector give it
CardRecords(card, editions, vector) ==
    [i \in 1..Len(editions) |->
        [card |-> card,
         record |-> JsonRecord(editions[i], <<"a", "b">>,
                        IF card = <<"b">> THEN <<"a", ",", "b">> ELSE <<"a">>,
                        <<"0">>, <<>>),
         combined_vector |-> vector]]

\* read_json_zip_file: the (card, record) list
InputLists ==
    {CardRecords(CardOrder[1], e1, v) \o CardRecords(CardOrder[2], e2, v)
        \o CardRecords(CardOrder[3], e3, v) :
        e1 \in Expansions, e2 \in Expansions, e3 \in Expansions,
        v \in {<<<<1, 3>>, <<2, 4>>>>, <<>>}}

MatchOptions ==
    {[DefaultOptions EXCEPT
        !.json_schema_version = 2,
        !.similarity_threshold = st, !.min_single_similarity = ms,
        !.min_multiple_similarity = ms, !.add_author_to_title = aa,
        !.overlap_adjustment = oa, !.input_excluded_ids = ex] :
        st \in {None, Some((One * 7) \div 10)},
        ms \in {None, Some((One * 9) \div 10)},
        aa \in BOOLEAN,
        oa \in {None, Some(2)},
        ex \in {<<>>,
                << <<"a", ":", "0">> >>,
                << <<"a">> \o <<":">> \o to_string(NO_EDITION),
                   <<"b">> \o <<":">> \o to_string(INVALID_JSON) >>}}

Init ==
    /\ pc = "loop"
    /\ config \in MatchOptions
    /\ dataset_vectors = Dataset(SmallDocs)
    /\ source_data_records \in
           {SourceData(SmallDocs, {}), SourceData(SmallDocs, {DocId(2)})}
    /\ records \in InputLists
    /\ statistics = MatchStatistics_default
    /\ output_records = <<>>
    /\ scored = <<>>
    /\ call = [next |-> 1]
    /\ updates = Idle

\* the card of the iteration
Card == records[call.next].card

\* the record of the iteration, after add_author_to_title
Record ==
    LET record == records[call.next].record
    IN  IF config.add_author_to_title
            THEN [record EXCEPT !.title =
                     combine_title_and_author(record.title, record.author)]
            ELSE record

\* statistics.update and output_records.push of one iteration
Emit(stats, top) ==
    /\ statistics' = update(statistics, stats, Card)
    /\ output_records' =
           Append(output_records,
                  OutputRecord_new(Card, Record, top, stats, source_data_records))
    /\ call' = [call EXCEPT !.next = @ + 1]

\* the iteration of an input that is in the input exclusion set
MatchExcluded ==
    /\ pc = "loop"
    /\ call.next =< Len(records)
    /\ input_is_excluded(config, Card, Record.edition)
    /\ Emit("Excluded", <<>>)
    /\ UNCHANGED <<config, dataset_vectors, source_data_records, pc, scored,
                   records, updates>>

\* the iteration of an input without editions
MatchNoEdition ==
    /\ pc = "loop"
    /\ call.next =< Len(records)
    /\ ~input_is_excluded(config, Card, Record.edition)
    /\ Record.edition = NO_EDITION
    /\ Emit("NoEdition", <<>>)
    /\ UNCHANGED <<config, dataset_vectors, source_data_records, pc, scored,
                   records, updates>>

\* the iteration of an input that is no valid JSON record
MatchInvalidJSON ==
    /\ pc = "loop"
    /\ call.next =< Len(records)
    /\ ~input_is_excluded(config, Card, Record.edition)
    /\ Record.edition # NO_EDITION
    /\ Record.edition = INVALID_JSON
    /\ Emit("InvalidJSON", <<>>)
    /\ UNCHANGED <<config, dataset_vectors, source_data_records, pc, scored,
                   records, updates>>

\* the iteration of every other input: process_record, get_stats, update,
\* push; a panic of process_record ends the run
MatchScored ==
    /\ pc = "loop"
    /\ call.next =< Len(records)
    /\ ~input_is_excluded(config, Card, Record.edition)
    /\ Record.edition # NO_EDITION
    /\ Record.edition # INVALID_JSON
    /\ scored' = Append(scored, call.next)
    /\ \E jw \in JaroTables(JaroPairs(config, Record, source_data_records)) :
          \E result \in {process_record(config, Record,
                              records[call.next].combined_vector,
                              dataset_vectors, source_data_records, jw)} :
              IF result.panicked
                  THEN /\ pc' = "panicked"
                       /\ UNCHANGED <<statistics, output_records, call>>
                  ELSE \E stats \in {get_stats(config, result.top)} :
                          /\ pc' = pc
                          /\ Emit(stats, result.top)
    /\ UNCHANGED <<config, dataset_vectors, source_data_records, records,
                   updates>>

\* after the loop: output::output_records and report::output_report
WriteOutput ==
    /\ pc = "loop"
    /\ call.next > Len(records)
    /\ pc' = "done"
    /\ UNCHANGED <<config, dataset_vectors, source_data_records, statistics,
                   output_records, scored, call, records, updates>>

Next ==
    \/ MatchExcluded
    \/ MatchNoEdition
    \/ MatchInvalidJSON
    \/ MatchScored
    \/ WriteOutput

Spec == Init /\ [][Next]_vars

\* the formatted id of input i is literally in the input exclusion set
Listed(i) ==
    Contains(config.input_excluded_ids,
             records[i].card \o <<":">> \o to_string(records[i].record.edition))

\* the formatted id of input i is in the set once its surrounding white
\* space is stripped
ListedTrimmed(i) ==
    Contains(config.input_excluded_ids,
             trim(records[i].card \o <<":">>
                  \o to_string(records[i].record.edition)))

\* input i has got the label stats without being scored
LabelledUnscored(i, stats) ==
    /\ output_records[i].stats = stats
    /\ output_records[i].top = <<>>
    /\ output_records[i].card = records[i].card
    /\ ~Contains(scored, i)
    /\ records[i].card \in statistics.cards

\* C2: an input whose card:edition is in the input exclusion set, or whose
\* edition is the sentinel 9999999 or 9999998, is never handed to
\* process_record: it gets the label Excluded, NoEdition or InvalidJSON
\* with an empty candidate list, the exclusion check goes first, and its
\* card is in the card set
C2_ExcludedAndSentinelsNotScored ==
    pc \in {"loop", "panicked", "done"} =>
        /\ \A i \in 1..Len(output_records) :
              /\ Listed(i) => LabelledUnscored(i, "Excluded")
              /\ ListedTrimmed(i) => LabelledUnscored(i, "Excluded")
              /\ (~ListedTrimmed(i) /\ records[i].record.edition = NO_EDITION)
                    => LabelledUnscored(i, "NoEdition")
              /\ (~ListedTrimmed(i) /\ records[i].record.edition = INVALID_JSON)
                    => LabelledUnscored(i, "InvalidJSON")
        /\ \A k \in 1..Len(scored) :
              /\ ~Listed(scored[k])
              /\ records[scored[k]].record.edition \notin {NO_EDITION, INVALID_JSON}

\* an excluded sentinel input is labelled Excluded, another sentinel input
\* keeps its own label, and a third input is scored
C2_Witness ==
    /\ pc = "done"
    /\ \E i, j \in 1..Len(output_records) :
          /\ Listed(i)
          /\ records[i].record.edition = NO_EDITION
          /\ LabelledUnscored(i, "Excluded")
          /\ ~ListedTrimmed(j)
          /\ records[j].record.edition = INVALID_JSON
          /\ LabelledUnscored(j, "InvalidJSON")
    /\ Len(scored) = 1
    /\ statistics.number_of_records = 2

---------------------------------------------------------------------------
(* Claims about process_record *)

Processed == pc = "record" /\ call.result # None

Result == Unwrap(call.result)

\* the members of a list
Members(list) == {list[i] : i \in 1..Len(list)}

\* C7: whenever the norm of the input's or of a reference document's
\* weighted vector is 0, the cosine of the pair is 0, and process_record
\* sorts the candidates and returns a list
C7_ZeroNormCosineIsZero ==
    Processed =>
        /\ ~Result.panicked
        /\ \A i \in 1..Len(dataset_vectors) :
              (self_norm(call.input_combined_vector) = 0
               \/ dataset_vectors[i].dot = 0)
              => Result.gathered[i].similarity = 0

\* the z-score of a shortlist candidate from the mean and the population
\* standard deviation of the similarities of the whole shortlist
ShortlistZ(c) ==
    LET mean == z_mean(Result.shortlist)
        std_dev == z_std_dev(Result.shortlist)
    IN  IF std_dev = 0 THEN 0
        ELSE IF IsNaN(std_dev) \/ IsNaN(c.similarity) THEN NaN
        ELSE ((c.similarity - mean) * One) \div std_dev

\* the similarity of a shortlist candidate after the enabled adjustments
AdjustedSimilarity(c) ==
    LET known == c.id \in DOMAIN source_data_records
        overlapped ==
            IF IsSome(config.overlap_adjustment) /\ known
                THEN FMul(c.original_similarity, c.adjusted_overlap_score)
                ELSE c.original_similarity
        titled ==
            IF config.jaro_winkler_adjustment /\ known
                THEN FMul(overlapped, c.jaro_winkler_score)
                ELSE overlapped
    IN  IF config.jaro_winkler_author_adjustment /\ known
           /\ source_data_records[c.id].author # <<>>
           /\ call.record.author # <<>>
            THEN FMul(titled, c.jaro_winkler_author_score)
            ELSE titled

\* C8: with z_threshold set, a shortlist candidate survives the z filter
\* iff its z-score is strictly greater than z_threshold; the z-scores come
\* from the mean and population standard deviation of the adjusted
\* similarities of the whole shortlist of at most TOP_N*20 candidates, the
\* truncation to TOP_N coming after the filter; with a standard deviation
\* of 0 every z-score is 0
C8_ZFilterStrict ==
    (Processed /\ ~Result.panicked /\ IsSome(config.z_threshold)) =>
        /\ Len(Result.shortlist) = Min(Len(dataset_vectors), TOP_N * 20)
        /\ \A c \in Members(Result.shortlist) :
              /\ c.similarity = AdjustedSimilarity(c)
              /\ c.zscore = ShortlistZ(c)
              /\ c \in Members(Result.z_kept)
                    <=> FGt(ShortlistZ(c), Unwrap(config.z_threshold))
        /\ Members(Result.z_kept) \subseteq Members(Result.shortlist)
        /\ Members(Result.top) \subseteq Members(truncate(Result.z_kept, TOP_N))
        /\ z_std_dev(Result.shortlist) = 0
              => \A c \in Members(Result.shortlist) : c.zscore = 0

\* a candidate exactly at the threshold is dropped while others survive
C8_Witness ==
    /\ Processed /\ ~Result.panicked /\ IsSome(config.z_threshold)
    /\ z_std_dev(Result.shortlist) > 0
    /\ \E c \in Members(Result.shortlist) :
          /\ c.zscore = Unwrap(config.z_threshold)
          /\ c.similarity > 0
          /\ c \notin Members(Result.z_kept)
    /\ Result.top # <<>>

\* C9: with similarity_threshold set, no candidate of the returned list has
\* a similarity below the threshold, whatever adjustments are enabled
C9_NoCandidateBelowThreshold ==
    (Processed /\ IsSome(config.similarity_threshold)) =>
        \A c \in Members(Result.top) :
            FGe(c.similarity, Unwrap(config.similarity_threshold))

\* C10: an id of the reference exclusion set is never in the returned list
C10_ExcludedIdNeverReturned ==
    Processed =>
        \A c \in Members(Result.top) : ~Contains(config.excluded_ids, c.id)

\* an excluded document that matches the input is kept out of a nonempty
\* list
C10_Witness ==
    /\ Processed /\ ~Result.panicked
    /\ Result.top # <<>>
    /\ \E i \in 1..Len(dataset_vectors) :
          /\ Contains(config.excluded_ids, dataset_vectors[i].id)
          /\ FGt(calculate_similarity_score(config, call.record,
                    Get(source_data_records, dataset_vectors[i].id),
                    call.input_combined_vector,
                    self_norm(call.input_combined_vector), dataset_vectors[i]),
                 IF IsSome(config.similarity_threshold)
                     THEN Unwrap(config.similarity_threshold) ELSE 0)
          /\ Result.gathered[i].similarity = 0
          /\ \A c \in Members(Result.top) : c.id # dataset_vectors[i].id

---------------------------------------------------------------------------
(* maximal_overlaps as a function of its two strings *)

\* the strings are of at most MaxText characters
MaxText == 4

\* two ASCII letters and a letter of two UTF-8 bytes
OverlapChars == {"a", "b", "e2"}

RECURSIVE StringsOver(_, _)
StringsOver(chars, n) ==
    IF n = 0 THEN {<<>>}
    ELSE LET shorter == StringsOver(chars, n - 1)
         IN  shorter \cup {Append(t, c) : t \in shorter, c \in chars}

InitOverlap ==
    /\ config = Idle
    /\ dataset_vectors = Idle
    /\ source_data_records = Idle
    /\ statistics = Idle
    /\ output_records = Idle
    /\ scored = Idle
    /\ records = Idle
    /\ updates = Idle
    /\ pc = "overlaps"
    /\ \E a \in StringsOver(OverlapChars, MaxText),
          b \in StringsOver(OverlapChars, MaxText) :
            call = [a |-> a, b |-> b, result |-> None]

\* one call of maximal_overlaps
MaximalOverlaps ==
    /\ pc = "overlaps"
    /\ call.result = None
    /\ call' = [call EXCEPT !.result = Some(maximal_overlaps(call.a, call.b))]
    /\ UNCHANGED <<config, dataset_vectors, source_data_records, pc,
                   statistics, output_records, scored, records, updates>>

NextOverlap == MaximalOverlaps

SpecOverlap == InitOverlap /\ [][NextOverlap]_vars

Overlapped == pc = "overlaps" /\ call.result # None

Overlaps == Unwrap(call.result)

\* C11: of the strings maximal_overlaps returns, none is a substring of, or
\* equal to, another one: a common substring inside a longer returned
\* overlap is not returned on its own.
C11_NoOverlapInsideAnother ==
    Overlapped =>
        \A i, j \in 1..Len(Overlaps) :
            i # j => ~IsSubstring(Overlaps[i], Overlaps[j])

\* the scan finds "ab" and, ending one position later, "b", which lies
\* inside "ab"; "ab" and "e2" are returned and "b" is not
C11_Witness ==
    /\ Overlapped
    /\ call.a = <<"e2", "a", "b">>
    /\ call.b = <<"a", "b", "b", "e2">>
    /\ <<"b">> \in scan(build(call.a), call.b, 1, 0, 0, {})
    /\ Overlaps = <<<<"a", "b">>, <<"e2">>>>

\* the non-empty substrings of a string
Substrings(s) ==
    {SubSeq(s, i, j) : i \in 1..Len(s), j \in 1..Len(s)} \ {<<>>}

\* the non-empty common substrings of the two arguments
CommonSubstrings == Substrings(call.a) \cap Substrings(call.b)

\* C23: every string maximal_overlaps(A, B) returns is a non-empty
\* substring of both A and B; every non-empty common substring of A and B
\* is a substring of a returned string; the list is in order of decreasing
\* length (String::len), ties in ascending lexicographic order; it is
\* empty when A and B share no character.
C23_OverlapsCoverCommonSubstrings ==
    Overlapped =>
        /\ \A i \in 1..Len(Overlaps) : Overlaps[i] \in CommonSubstrings
        /\ \A s \in CommonSubstrings :
              \E i \in 1..Len(Overlaps) : IsSubstring(s, Overlaps[i])
        /\ \A i, j \in 1..Len(Overlaps) :
              i < j =>
                 \/ ByteLen(Overlaps[i]) > ByteLen(Overlaps[j])
                 \/ /\ ByteLen(Overlaps[i]) = ByteLen(Overlaps[j])
                    /\ LexLess(Overlaps[i], Overlaps[j])
        /\ (\A i \in 1..Len(call.a), j \in 1..Len(call.b) :
                call.a[i] # call.b[j]) => Overlaps = <<>>

\* the scan of "abab" against "bab" falls back from "ab" to "b" at the
\* second "a" and goes on to "bab", which covers every common substring;
\* "e2" before "a" is a tie of equal length in another pair
C23_Witness ==
    /\ Overlapped
    /\ \/ /\ call.a = <<"b", "a", "b">>
          /\ call.b = <<"a", "b", "a", "b">>
          /\ Overlaps = <<<<"b", "a", "b">>>>
          /\ Cardinality(CommonSubstrings) = 5
       \/ /\ call.a = <<"a", "a", "b", "e2">>
          /\ call.b = <<"e2", "b", "a", "a">>
          /\ Overlaps = <<<<"a", "a">>, <<"e2">>, <<"b">>>>

---------------------------------------------------------------------------
(* The input loader: src/src/zipfile.rs *)

\* str::starts_with and str::ends_with
StartsWith(s, prefix) ==
    Len(prefix) =< Len(s) /\ SubSeq(s, 1, Len(prefix)) = prefix

EndsWith(s, suffix) ==
    Len(suffix) =< Len(s)
    /\ SubSeq(s, Len(s) - Len(suffix) + 1, Len(s)) = suffix

\* filename.split('/').last(): what follows the last '/'
RECURSIVE basename(_)
basename(filename) ==
    IF \E i \in 1..Len(filename) : filename[i] = "/"
        THEN basename(Tail(filename)) ELSE filename

\* JsonRecordEditionLoaderYearV2: Single(y), Multiple(ys) or None, with the
\* conversion to Vec<u32> in years
Single(y) == [tag |-> "Single", years |-> <<y>>]

Multiple(ys) == [tag |-> "Multiple", years |-> ys]

NoYears == [tag |-> "None", years |-> <<>>]

\* first_year: the minimum of the parsed years
first_year(year_array) ==
    IF year_array = <<>> THEN None
    ELSE Some(CHOOSE y \in {year_array[i] : i \in 1..Len(year_array)} :
                 \A i \in 1..Len(year_array) : y =< year_array[i])

\* the compact string of an edition is held as what parse_year_string makes
\* of it: None for an error, Some(years) otherwise
extract_years(cfg, edition) ==
    IF cfg.parse_year_ranges
        THEN IF IsSome(edition.year_of_publication_compact_string)
                THEN LET parsed ==
                             Unwrap(edition.year_of_publication_compact_string)
                     IN  IF IsSome(parsed)
                            THEN IF cfg.use_first_parsed_year
                                    THEN IF IsSome(first_year(Unwrap(parsed)))
                                            THEN Single(Unwrap(first_year(
                                                            Unwrap(parsed))))
                                            ELSE NoYears
                                    ELSE Multiple(Unwrap(parsed))
                            ELSE edition.year_of_publication
                ELSE edition.year_of_publication
        ELSE edition.year_of_publication

\* the lowest year of the list, zero or not
lowest_year(edition_years) ==
    IF edition_years.years = <<>> THEN 0
    ELSE Unwrap(first_year(edition_years.years))

lowest_non_zero_year(edition_years) ==
    IF edition_years.tag = "Single" THEN edition_years.years[1]
    ELSE IF edition_years.tag = "Multiple" THEN MinNonZero(edition_years.years)
    ELSE 0

\* serial_titles.join(" ")
RECURSIVE join(_)
join(strings) ==
    IF strings = <<>> THEN <<>>
    ELSE IF Len(strings) = 1 THEN strings[1]
    ELSE strings[1] \o <<" ">> \o join(Tail(strings))

\* the title of an edition's JsonRecord under schema v2
edition_title(cfg, record, edition) ==
    LET title0 == IF IsSome(record.title) THEN Unwrap(record.title) ELSE <<>>
        serial_titles == trim(join(edition.serial_titles))
        title1 == IF cfg.add_serial_to_title /\ serial_titles # <<>>
                      THEN title0 \o <<" ">> \o serial_titles ELSE title0
    IN  IF cfg.add_edition_to_title /\ IsSome(edition.edition_statement)
           /\ trim(Unwrap(edition.edition_statement)) # <<>>
            THEN title1 \o <<" ">> \o Unwrap(edition.edition_statement)
            ELSE title1

\* Option<String>::unwrap_or_default
unwrap_or_default(opt) == IF IsSome(opt) THEN Unwrap(opt) ELSE <<>>

\* one element of the loader's jsonarray
Entry(card, record) == [card |-> card, record |-> record]

\* create_invalid_json_loader_record_v2
create_invalid_json_loader_record_v2 ==
    [title |-> Some(<<"I", "N", "V", "A", "L", "I", "D", " ", "J", "S", "O", "N">>),
     author |-> Some(<<"I", "N", "V", "A", "L", "I", "D", " ", "J", "S", "O", "N">>),
     editions |-> <<>>, invalid_json |-> TRUE]

\* a file's content is held as what serde_json makes of it: object is the
\* result of from_str::<Record>, array that of from_str::<Vec<Record>>
\* (None for Err), and text is the content itself

\* convert_to_jsonarray: the record of a .json file, None for a panic
parse_record(content) ==
    IF IsSome(content.object) THEN content.object
    ELSE IF IsSome(content.array)
        THEN IF Len(Unwrap(content.array)) = 1
                THEN Some(Unwrap(content.array)[1])
                ELSE None
    ELSE None

\* the record of a .json file under schema v2 with a placeholder that does
\* not carry the invalid_json flag
parse_record_v2_unflagged(content) ==
    IF IsSome(content.object) THEN Unwrap(content.object)
    ELSE IF IsSome(content.array) /\ Len(Unwrap(content.array)) = 1
        THEN Unwrap(content.array)[1]
    ELSE [create_invalid_json_loader_record_v2 EXCEPT !.invalid_json = FALSE]

\* convert_to_jsonarray_v2: the record of a .json file
parse_record_v2(content) ==
    IF IsSome(content.object) THEN Unwrap(content.object)
    ELSE IF IsSome(content.array)
        THEN IF Len(Unwrap(content.array)) = 1
                THEN Unwrap(content.array)[1]
                ELSE create_invalid_json_loader_record_v2
    ELSE create_invalid_json_loader_record_v2

\* convert_to_jsonarray: the entries pushed for one parsed record
push_editions(filename, record) ==
    [k \in 1..Len(record.editions) |->
        Entry(filename,
              JsonRecord(k - 1, unwrap_or_default(record.title),
                  unwrap_or_default(record.author),
                  to_string(IF IsSome(record.editions[k].year_of_publication)
                                THEN Unwrap(record.editions[k].year_of_publication)
                                ELSE 0),
                  <<>>))]
    \o (IF record.editions = <<>>
            THEN <<Entry(filename,
                         JsonRecord(NO_EDITION, unwrap_or_default(record.title),
                             unwrap_or_default(record.author), <<>>, <<>>))>>
            ELSE <<>>)

\* convert_to_jsonarray_v2: the sentinel entry of a record flagged
\* invalid_json
push_invalid_json(record_basename, record) ==
    IF record.invalid_json
        THEN <<Entry(record_basename,
                     JsonRecord(INVALID_JSON, unwrap_or_default(record.title),
                         unwrap_or_default(record.author), <<>>, <<>>))>>
        ELSE <<>>

\* convert_to_jsonarray_v2: the entries pushed for one record
push_editions_v2(cfg, filename, record) ==
    [k \in 1..Len(record.editions) |->
        LET edition == record.editions[k]
            edition_years == extract_years(cfg, edition)
        IN  Entry(basename(filename),
                  JsonRecord(k - 1, edition_title(cfg, record, edition),
                      unwrap_or_default(record.author),
                      IF lowest_non_zero_year(edition_years) > 0
                          THEN to_string(lowest_non_zero_year(edition_years))
                          ELSE <<>>,
                      edition_years.years))]
    \o (IF record.editions = <<>> /\ ~record.invalid_json
            THEN <<Entry(basename(filename),
                         JsonRecord(NO_EDITION, unwrap_or_default(record.title),
                             unwrap_or_default(record.author), <<>>, <<>>))>>
            ELSE <<>>)
    \o push_invalid_json(basename(filename), record)

---------------------------------------------------------------------------
(* The expansion of one parsed record into JsonRecords *)

Json == <<".", "j", "s", "o", "n">>

\* the year_of_publication of an edition under schema v2
EditionYearsV2 ==
    {NoYears, Single(0), Single(BaseYear), Multiple(<<>>), Multiple(<<0>>),
     Multiple(<<0, BaseYear + 1, BaseYear>>)}

\* what parse_year_string makes of a compact string: absent, an error, or
\* the years of "1990-1991" and of "0000, 1990"
CompactStrings ==
    {None, Some(None), Some(Some(<<BaseYear, BaseYear + 1>>)),
     Some(Some(<<0, BaseYear>>))}

EditionV2(year, compact, statement, serial) ==
    [year_of_publication |-> year,
     year_of_publication_compact_string |-> compact,
     edition_statement |-> statement, serial_titles |-> serial]

EditionsV2 ==
    {EditionV2(y, c, None, <<>>) : y \in EditionYearsV2, c \in CompactStrings}
    \cup {EditionV2(Single(BaseYear), None, st, se) :
             st \in {Some(<<" ">>), Some(<<"b">>)},
             se \in {<<>>, << <<>> >>, << <<"a">>, <<"b">> >>}}

\* the year_of_publication of an edition under schema v1
EditionsV1 ==
    {[year_of_publication |-> y] :
        y \in {None, Some(0), Some(BaseYear), Some(BaseYear + 1)}}

\* the edition lists of at most n editions: any first edition, then copies
\* of one of two fixed editions
RECURSIVE EditionLists(_, _, _)
EditionLists(first, rest, n) ==
    IF n = 0 THEN {<<>>}
    ELSE EditionLists(first, rest, n - 1)
         \cup {<<e>> \o [k \in 1..(n - 1) |-> r] : e \in first, r \in rest}

\* the records serde_json yields under the loader of schema `version`
LoaderRecords(version) ==
    IF version = 2
        THEN {[title |-> t, author |-> Some(<<"a">>), editions |-> es,
               invalid_json |-> inv] :
                 t \in {None, Some(<<"a", "b">>)},
                 es \in EditionLists(EditionsV2,
                            {EditionV2(Multiple(<<BaseYear + 1>>), None, None, <<>>),
                             EditionV2(NoYears, None, None, <<>>)},
                            MaxEditions),
                 inv \in BOOLEAN}
        ELSE {[title |-> t, author |-> Some(<<"a">>), editions |-> es] :
                 t \in {None, Some(<<"a", "b">>)},
                 es \in EditionLists(EditionsV1,
                            {[year_of_publication |-> Some(BaseYear + 1)],
                             [year_of_publication |-> None]},
                            MaxEditions)}

ExpandOptions ==
    {[DefaultOptions EXCEPT
        !.json_schema_version = v, !.parse_year_ranges = pyr,
        !.use_first_parsed_year = ufy, !.add_serial_to_title = ast,
        !.add_edition_to_title = aet] :
        v \in {1, 2, 3}, pyr \in BOOLEAN, ufy \in BOOLEAN, ast \in BOOLEAN,
        aet \in BOOLEAN}

\* read_zip_file: convert_to_jsonarray_v2 for schema version 2 alone
uses_v2(cfg) == cfg.json_schema_version = 2

InitExpand ==
    /\ config \in ExpandOptions
    /\ dataset_vectors = Idle
    /\ source_data_records = Idle
    /\ statistics = Idle
    /\ output_records = Idle
    /\ scored = Idle
    /\ records = Idle
    /\ updates = Idle
    /\ pc = "expand"
    /\ \E r \in LoaderRecords(IF uses_v2(config) THEN 2 ELSE 1),
          f \in {<<"a">> \o Json, <<"d", "/", "a">> \o Json} :
            call = [filename |-> f, record |-> r, result |-> None]

\* the part of the loader's loop body that follows the parse of a file
Expand ==
    /\ pc = "expand"
    /\ call.result = None
    /\ call' = [call EXCEPT !.result =
                  Some(IF uses_v2(config)
                           THEN push_editions_v2(config, call.filename,
                                                 call.record)
                           ELSE push_editions(call.filename, call.record))]
    /\ UNCHANGED <<config, dataset_vectors, source_data_records, pc,
                   statistics, output_records, scored, records, updates>>

NextExpand == Expand

SpecExpand == InitExpand /\ [][NextExpand]_vars

---------------------------------------------------------------------------
(* Claims about the expansion, under SpecExpand *)

Expanded == pc = "expand" /\ call.result # None

Expansion == Unwrap(call.result)

\* the edition fields of the JsonRecords of the expansion, in order
ExpansionEditions == [k \in 1..Len(Expansion) |-> Expansion[k].record.edition]

\* the record is an invalid-JSON placeholder: flagged, without editions
IsPlaceholder ==
    uses_v2(config) /\ call.record.invalid_json /\ call.record.editions = <<>>

\* the record carries the invalid_json flag although it has editions
FlaggedWithEditions ==
    uses_v2(config) /\ call.record.invalid_json /\ call.record.editions # <<>>

\* what C13 states of the expansion
ExpandsByEditions ==
    LET N == Len(call.record.editions)
    IN  /\ N >= 1 => ExpansionEditions = [k \in 1..N |-> k - 1]
        /\ (N = 0 /\ ~IsPlaceholder) => ExpansionEditions = <<NO_EDITION>>
        /\ IsPlaceholder => ExpansionEditions = <<INVALID_JSON>>
        /\ ~(/\ \E k \in 1..Len(Expansion) :
                    ExpansionEditions[k] \notin {NO_EDITION, INVALID_JSON}
             /\ \E k \in 1..Len(Expansion) :
                    ExpansionEditions[k] \in {NO_EDITION, INVALID_JSON})

\* C13: a parsed record expands to exactly N JsonRecords with the editions
\* 0..N-1 when it has N >= 1 editions, to one JsonRecord of edition 9999999
\* when it has none and is no invalid-JSON placeholder, and to one of
\* edition 9999998 when it is such a placeholder; never to real editions
\* together with a sentinel.
C13_ExpandsToEditionsOrOneSentinel == Expanded => ExpandsByEditions

\* the part of C13 the code does implement: records that do not carry the
\* invalid_json flag together with editions
C13_ExpandsUnlessFlaggedWithEditions ==
    (Expanded /\ ~FlaggedWithEditions) => ExpandsByEditions

\* the elements of a year list
YearsIn(years) == {years[i] : i \in 1..Len(years)}

\* the decimal string of the lowest non-zero year of a list, empty when the
\* list has no non-zero year
LowestNonZeroString(years) ==
    IF YearsIn(years) \ {0} = {} THEN <<>>
    ELSE to_string(CHOOSE m \in YearsIn(years) \ {0} :
                       \A y \in YearsIn(years) \ {0} : m =< y)

\* the years an edition declares: under schema v1 its year_of_publication;
\* under schema v2 its year_of_publication, or with parse_year_ranges the
\* years of its compact string when that parses (the lowest alone with
\* use_first_parsed_year)
EditionDeclares(k) ==
    LET edition == call.record.editions[k]
    IN  IF ~uses_v2(config)
            THEN IF edition.year_of_publication = None THEN <<>>
                 ELSE <<Unwrap(edition.year_of_publication)>>
        ELSE IF config.parse_year_ranges
                /\ edition.year_of_publication_compact_string # None
                /\ Unwrap(edition.year_of_publication_compact_string) # None
            THEN LET parsed ==
                         Unwrap(Unwrap(edition.year_of_publication_compact_string))
                 IN  IF config.use_first_parsed_year
                        THEN <<CHOOSE m \in YearsIn(parsed) :
                                   \A y \in YearsIn(parsed) : m =< y>>
                        ELSE parsed
        ELSE edition.year_of_publication.years

\* the years declared for entry k of the expansion: none for a sentinel
Declares(k) ==
    IF ExpansionEditions[k] \in {NO_EDITION, INVALID_JSON} THEN <<>>
    ELSE EditionDeclares(ExpansionEditions[k] + 1)

\* C14: for every JsonRecord of the loader, in both schema versions, year is
\* the decimal string of the lowest non-zero year declared for the edition,
\* or the empty string when no non-zero year is declared, never "0"; under
\* schema v2 allowed_years is the full list of the declared years.
C14_YearIsLowestNonZeroOrEmpty ==
    Expanded =>
        \A k \in 1..Len(Expansion) :
            /\ Expansion[k].record.year = LowestNonZeroString(Declares(k))
            /\ Expansion[k].record.year # <<"0">>
            /\ uses_v2(config) => Expansion[k].record.allowed_years = Declares(k)

\* C14 as amended: under schema v2 as stated; under schema v1 year is the
\* decimal string of the one declared year, "0" when it is absent or 0,
\* and the empty string for the sentinel of a record without editions, and
\* allowed_years is empty.
C14_YearPerSchema ==
    Expanded =>
        \A k \in 1..Len(Expansion) :
            IF uses_v2(config)
                THEN /\ Expansion[k].record.year = LowestNonZeroString(Declares(k))
                     /\ Expansion[k].record.year # <<"0">>
                     /\ Expansion[k].record.allowed_years = Declares(k)
                ELSE /\ Expansion[k].record.year =
                            (IF ExpansionEditions[k] = NO_EDITION THEN <<>>
                             ELSE IF YearsIn(Declares(k)) \ {0} = {} THEN <<"0">>
                             ELSE to_string(Declares(k)[1]))
                     /\ Expansion[k].record.allowed_years = <<>>

\* an edition of schema v2 declaring 0, 1991 and 1990 gets the year "1990"
\* and the three years as allowed_years
C14_Witness ==
    /\ Expanded
    /\ uses_v2(config)
    /\ \E k \in 1..Len(Expansion) :
          /\ Expansion[k].record.allowed_years = <<0, BaseYear + 1, BaseYear>>
          /\ Expansion[k].record.year = to_string(BaseYear)
    /\ \E k \in 1..Len(Expansion) :
          /\ Expansion[k].record.allowed_years = <<>>
          /\ Expansion[k].record.year = <<>>
          /\ Expansion[k].record.edition = 1

---------------------------------------------------------------------------
(* The loader's loop over the files of the input, followed by the loop of *)
(* match_json_zip over the records it yields                               *)

\* at most MaxFiles files in the input
MaxFiles == 3

Prompt == <<".", "p", "r", "o", "m", "p", "t">>

Macosx == <<"_", "_", "M", "A", "C", "O", "S", "X">>

DsStore == <<".", "D", "S", "_", "S", "t", "o", "r", "e">>

\* the names of the entries of the archive
FileNames ==
    {<<"a">> \o Json, <<"d", "/", "a">> \o Json,
     Macosx \o <<"/", "a">> \o Json,
     <<"P">> \o Prompt, <<"p">> \o Prompt, Macosx \o <<"/", "P">> \o Prompt,
     DsStore, Macosx \o <<"/">> \o DsStore}

\* a record with n editions under the loader of schema `version`
SomeRecord(version, n) ==
    IF version = 2
        THEN [title |-> Some(<<"a", "b">>), author |-> Some(<<"a">>),
              editions |-> [k \in 1..n |->
                               EditionV2(Single(BaseYear), None, None, <<>>)],
              invalid_json |-> FALSE]
        ELSE [title |-> Some(<<"a", "b">>), author |-> Some(<<"a">>),
              editions |-> [k \in 1..n |->
                               [year_of_publication |-> Some(BaseYear)]]]

\* what serde_json makes of a content: a record, an array of records, or
\* neither
Parses(version) ==
    {[object |-> Some(SomeRecord(version, n)), array |-> None] : n \in 0..2}
    \cup {[object |-> None, array |-> Some(a)] :
             a \in {<<>>, <<SomeRecord(version, 1)>>,
                    <<SomeRecord(version, 1), SomeRecord(version, 0)>>}}
    \cup {[object |-> None, array |-> None]}

\* a file's content: its text, which differs from file to file, and what
\* serde_json makes of it
Content(filename, parse) ==
    [text |-> filename, object |-> parse.object, array |-> parse.array]

\* the keys of a BTreeMap<String, _> in the order of its iteration
RECURSIVE SortedKeys(_)
SortedKeys(keys) ==
    IF keys = {} THEN <<>>
    ELSE LET first == CHOOSE x \in keys : \A y \in keys \ {x} : LexLess(x, y)
         IN  <<first>> \o SortedKeys(keys \ {first})

LoadOptions ==
    {[DefaultOptions EXCEPT !.json_schema_version = v,
                            !.input_excluded_ids = ex] :
        v \in {1, 2},
        ex \in {<<>>, << <<"a">> \o Json \o <<":">> \o to_string(INVALID_JSON) >>}}

InitLoad ==
    /\ pc = "load"
    /\ config \in LoadOptions
    /\ dataset_vectors = Dataset(SmallDocs)
    /\ source_data_records = SourceData(SmallDocs, {})
    /\ statistics = Idle
    /\ output_records = Idle
    /\ scored = Idle
    /\ updates = Idle
    /\ records = <<>>
    /\ \E names \in SUBSET FileNames :
          /\ Cardinality(names) =< MaxFiles
          /\ \E parses \in [names -> Parses(config.json_schema_version)] :
                /\ \A f \in names :
                      ~EndsWith(f, Json) => parses[f].object = None
                                            /\ parses[f].array = None
                /\ call = [inputdata |-> [f \in names |-> Content(f, parses[f])],
                           names |-> SortedKeys(names),
                           position |-> 1, systemprompt |-> <<>>, next |-> 0]

\* the file of the iteration and its content
File == call.names[call.position]

FileContent == call.inputdata[File]

Loading == pc = "load" /\ call.position =< Len(call.names)

\* a file with the extension .prompt: its content is the prompt
LoadPrompt ==
    /\ Loading
    /\ EndsWith(File, Prompt)
    /\ call' = [call EXCEPT !.systemprompt = FileContent.text,
                            !.position = @ + 1]
    /\ UNCHANGED <<config, dataset_vectors, source_data_records, pc,
                   statistics, output_records, scored, records, updates>>

\* a file that is not .json, or whose name starts with __MACOSX or
\* .DS_Store
SkipFile ==
    /\ Loading
    /\ ~EndsWith(File, Prompt)
    /\ \/ ~EndsWith(File, Json)
       \/ StartsWith(File, Macosx)
       \/ StartsWith(File, DsStore)
    /\ call' = [call EXCEPT !.position = @ + 1]
    /\ UNCHANGED <<config, dataset_vectors, source_data_records, pc,
                   statistics, output_records, scored, records, updates>>

IsInputJson ==
    /\ ~EndsWith(File, Prompt)
    /\ EndsWith(File, Json)
    /\ ~StartsWith(File, Macosx)
    /\ ~StartsWith(File, DsStore)

\* convert_to_jsonarray on a .json file: its records, or a panic
LoadJson ==
    /\ Loading
    /\ ~uses_v2(config)
    /\ IsInputJson
    /\ IF IsSome(parse_record(FileContent))
          THEN /\ records' = records
                      \o push_editions(File, Unwrap(parse_record(FileContent)))
               /\ call' = [call EXCEPT !.position = @ + 1]
               /\ pc' = pc
          ELSE /\ pc' = "panicked"
               /\ UNCHANGED <<records, call>>
    /\ UNCHANGED <<config, dataset_vectors, source_data_records, statistics,
                   output_records, scored, updates>>

\* convert_to_jsonarray_v2 on a .json file
LoadJsonV2 ==
    /\ Loading
    /\ uses_v2(config)
    /\ IsInputJson
    /\ records' = records
           \o push_editions_v2(config, File, parse_record_v2(FileContent))
    /\ call' = [call EXCEPT !.position = @ + 1]
    /\ UNCHANGED <<config, dataset_vectors, source_data_records, pc,
                   statistics, output_records, scored, updates>>

\* the loader returns and match_json_zip starts its loop; every record has
\* the same weighted-average vector
StartMatching ==
    /\ pc = "load"
    /\ call.position > Len(call.names)
    /\ pc' = "loop"
    /\ records' = [i \in 1..Len(records) |->
                      [card |-> records[i].card, record |-> records[i].record,
                       combined_vector |-> <<<<1, 3>>, <<2, 4>>>>]]
    /\ statistics' = MatchStatistics_default
    /\ output_records' = <<>>
    /\ scored' = <<>>
    /\ call' = [call EXCEPT !.next = 1]
    /\ UNCHANGED <<config, dataset_vectors, source_data_records, updates>>

NextLoad ==
    \/ LoadPrompt
    \/ SkipFile
    \/ LoadJson
    \/ LoadJsonV2
    \/ StartMatching
    \/ MatchExcluded
    \/ MatchNoEdition
    \/ MatchInvalidJSON
    \/ MatchScored
    \/ WriteOutput

SpecLoad == InitLoad /\ [][NextLoad]_vars

---------------------------------------------------------------------------
(* Claims about the loader, under SpecLoad *)

\* the content parses neither as a record nor as an array of one record
IsBroken(content) ==
    /\ content.object = None
    /\ content.array = None \/ Len(Unwrap(content.array)) # 1

\* the step of the loader on a broken .json file: under schema v2 one entry
\* of edition 9999998 is appended under the file's base name and the loop
\* goes on to the next file; under schema v1 the run ends in a panic
BrokenFileStep ==
    (Loading /\ IsInputJson /\ IsBroken(FileContent)) =>
        IF uses_v2(config)
            THEN /\ pc' = "load"
                 /\ call'.position = call.position + 1
                 /\ Len(records') = Len(records) + 1
                 /\ SubSeq(records', 1, Len(records)) = records
                 /\ records'[Len(records')].card = basename(File)
                 /\ records'[Len(records')].record.edition = INVALID_JSON
            ELSE /\ pc' = "panicked"
                 /\ records' = records

\* input i is in the input exclusion set
InputListed(i) ==
    Contains(config.input_excluded_ids,
             trim(records[i].card \o <<":">>
                  \o to_string(records[i].record.edition)))

\* under schema v2 the run does not stop in the loader, every file is gone
\* through before the matching starts, and an entry of edition 9999998 gets
\* one output row of its own, labelled InvalidJSON (Excluded when the input
\* exclusion set lists it, which goes first); a panic leaves no output
BrokenFileRows ==
    /\ (uses_v2(config) /\ pc # "load") => call.position = Len(call.names) + 1
    /\ uses_v2(config) => pc # "panicked"
    /\ pc = "panicked" => output_records = Idle
    /\ pc = "done" =>
          /\ Len(output_records) = Len(records)
          /\ \A i \in 1..Len(records) :
                /\ output_records[i].card = records[i].card
                /\ records[i].record.edition = INVALID_JSON =>
                      output_records[i].stats =
                          (IF InputListed(i) THEN "Excluded" ELSE "InvalidJSON")

IsIgnoredEntry(filename) ==
    \/ StartsWith(filename, Macosx \o <<"/">>)
    \/ basename(filename) = DsStore

\* C15: an entry under __MACOSX/ and a .DS_Store entry contribute neither a
\* JsonRecord nor the prompt string, whatever the extension and wherever
\* the entry sorts among the others.
C15_IgnoredEntriesContributeNothing ==
    [][(Loading /\ IsIgnoredEntry(File))
          => (records' = records /\ call'.systemprompt = call.systemprompt)]_vars

\* the part of C15 the code does implement: no JsonRecord comes from such an
\* entry, and the prompt does not come from one that has not the extension
\* .prompt
C15_IgnoredEntriesYieldNoRecord ==
    [][(Loading /\ IsIgnoredEntry(File))
          => /\ records' = records
             /\ ~EndsWith(File, Prompt)
                   => call'.systemprompt = call.systemprompt]_vars

---------------------------------------------------------------------------
(* Saving an artifact: Vocab::save (src/src/vocab.rs), Vectors::save       *)
(* (src/src/vectorize.rs), SourceData::save (src/src/source_data.rs).      *)
(* A file is the sequence of blocks a reader of the path gets; None is a   *)
(* path with no file.                                                      *)

MaxBlocks == 2

Artifacts == {"Vocab", "Vectors", "SourceData"}

\* the serialized forms of an artifact: one block or more
RECURSIVE Serializations(_)
Serializations(n) ==
    IF n = 0 THEN {}
    ELSE Serializations(n - 1)
         \cup {<<"0">>, <<"1">>}
         \cup {s \o <<b>> : s \in Serializations(n - 1), b \in {"0", "1"}}

\* the path before the save: no file, or the file of an earlier save
InitSave ==
    /\ config = Idle
    /\ dataset_vectors = Idle
    /\ source_data_records = Idle
    /\ statistics = Idle
    /\ output_records = Idle
    /\ scored = Idle
    /\ records = Idle
    /\ updates = Idle
    /\ pc = "save"
    /\ \E artifact \in Artifacts,
          previous \in {None} \cup {Some(s) : s \in Serializations(MaxBlocks)},
          serialized \in Serializations(MaxBlocks) :
            call = [artifact |-> artifact, previous |-> previous,
                    serialized |-> serialized, file |-> previous,
                    buffer |-> <<>>, written |-> 0]

\* std::fs::File::create(path).unwrap(): the file is created, or truncated
\* if it exists
FileCreate ==
    /\ pc = "save"
    /\ pc' = "serialize"
    /\ call' = [call EXCEPT !.file = Some(<<>>)]
    /\ UNCHANGED <<config, dataset_vectors, source_data_records, statistics,
                   output_records, scored, records, updates>>

\* bincode::serialize_into(file, self): the next block goes to the file
\* (Vocab, SourceData)
WriteBlock ==
    /\ pc = "serialize"
    /\ call.artifact # "Vectors"
    /\ call.written < Len(call.serialized)
    /\ call' = [call EXCEPT
                  !.file = Some(Unwrap(@) \o <<call.serialized[call.written + 1]>>),
                  !.written = @ + 1]
    /\ UNCHANGED <<config, dataset_vectors, source_data_records, pc,
                   statistics, output_records, scored, records, updates>>

\* bincode::serialize_into(&mut writer, self) with the BufWriter of
\* Vectors::save: the block goes to the buffer, after the buffer's content
\* has gone to the file
WriteBuffered ==
    /\ pc = "serialize"
    /\ call.artifact = "Vectors"
    /\ call.written < Len(call.serialized)
    /\ call' = [call EXCEPT
                  !.file = Some(Unwrap(@) \o call.buffer),
                  !.buffer = <<call.serialized[call.written + 1]>>,
                  !.written = @ + 1]
    /\ UNCHANGED <<config, dataset_vectors, source_data_records, pc,
                   statistics, output_records, scored, records, updates>>

\* the end of save: the BufWriter is flushed when it is dropped, the file
\* is closed
SaveReturns ==
    /\ pc = "serialize"
    /\ call.written = Len(call.serialized)
    /\ pc' = "saved"
    /\ call' = [call EXCEPT !.file = Some(Unwrap(@) \o call.buffer),
                            !.buffer = <<>>]
    /\ UNCHANGED <<config, dataset_vectors, source_data_records, statistics,
                   output_records, scored, records, updates>>

\* serialize_into(..).unwrap() on a write that fails (a full disk): the
\* process panics, and what was buffered is flushed as far as it goes
WriteFails ==
    /\ pc = "serialize"
    /\ call.written < Len(call.serialized)
    /\ pc' = "panicked"
    /\ \E flushed \in {<<>>, call.buffer} :
          call' = [call EXCEPT !.file = Some(Unwrap(@) \o flushed),
                               !.buffer = <<>>]
    /\ UNCHANGED <<config, dataset_vectors, source_data_records, statistics,
                   output_records, scored, records, updates>>

\* the process is killed in the middle of the save
Crash ==
    /\ pc = "serialize"
    /\ pc' = "crashed"
    /\ call' = [call EXCEPT !.buffer = <<>>]
    /\ UNCHANGED <<config, dataset_vectors, source_data_records, statistics,
                   output_records, scored, records, updates>>

NextSave ==
    \/ FileCreate
    \/ WriteBlock
    \/ WriteBuffered
    \/ SaveReturns
    \/ WriteFails
    \/ Crash

SpecSave == InitSave /\ [][NextSave]_vars

\* C16: at every point of a save, a failure or a crash in the middle of the
\* write included, a reader of the path gets the complete previous content
\* or the complete new content, never an empty or partly written file.
C16_ReaderSeesOldOrNew ==
    pc \in {"save", "serialize", "saved", "panicked", "crashed"} =>
        call.file \in {call.previous, Some(call.serialized)}

\* what the code does keep: the file is a prefix of the new content once
\* it is created, and the whole of it when save returns
C16_FileIsPrefixOfNew ==
    /\ pc \in {"serialize", "panicked", "crashed"} =>
          /\ call.file # None
          /\ Len(Unwrap(call.file)) =< Len(call.serialized)
          /\ Unwrap(call.file) = SubSeq(call.serialized, 1, Len(Unwrap(call.file)))
    /\ pc = "saved" => call.file = Some(call.serialized)

---------------------------------------------------------------------------
(* The parallel scan of process_record (src/src/matcher.rs):               *)
(* dataset_vectors.par_iter().map(process_one_item).collect(), then the    *)
(* shortlist. The workers of the thread pool take the items in any order   *)
(* and partition; collect hands the vector over when every item is done.   *)

ScanDocs == 5

NumWorkers == 2

Workers == 1..NumWorkers

\* the option settings of the scans
ScanOptions ==
    {[DefaultOptions EXCEPT
        !.similarity_threshold = st, !.overlap_adjustment = oa,
        !.z_threshold = zt, !.excluded_ids = ex] :
        st \in {None, Some((One * 7) \div 10)},
        oa \in {None, Some(2)},
        zt \in {None, Some(0)},
        ex \in {<<>>, <<DocId(1)>>}}

InitScan ==
    /\ pc = "scan"
    /\ statistics = Idle
    /\ output_records = Idle
    /\ scored = Idle
    /\ records = Idle
    /\ updates = Idle
    /\ config \in ScanOptions
    /\ dataset_vectors = Dataset(ScanDocs)
    /\ source_data_records = SourceData(ScanDocs, {})
    /\ \E v \in {<<<<1, 3>>, <<2, 4>>>>, <<<<2, 5>>>>} :
          call = [record |-> JsonRecord(0, <<"a", "b">>, <<"a">>, <<"0">>, <<>>),
                  input_combined_vector |-> v,
                  taken |-> {},
                  holding |-> [w \in Workers |-> 0],
                  finished |-> <<>>,
                  gathered |-> [i \in 1..ScanDocs |-> None],
                  result |-> None]

\* the collect of an indexed parallel iterator in the order the items finish
collect_in_finishing_order(gathered, index, candidate) ==
    LET free == CHOOSE i \in 1..Len(gathered) :
                    /\ gathered[i] = None
                    /\ \A j \in 1..(i - 1) : gathered[j] # None
    IN  [gathered EXCEPT ![free] = Some(candidate)]

\* .collect() of an indexed parallel iterator: the result of an item goes to
\* the item's position in the vector
collect_into(gathered, index, candidate) ==
    [gathered EXCEPT ![index] = Some(candidate)]

\* a worker of the pool takes an item no worker has taken
TakeItem(w, i) ==
    /\ pc = "scan"
    /\ call.holding[w] = 0
    /\ i \notin call.taken
    /\ call' = [call EXCEPT !.taken = @ \cup {i}, !.holding[w] = i]
    /\ UNCHANGED <<config, dataset_vectors, source_data_records, pc,
                   statistics, output_records, scored, records, updates>>

\* the worker's closure: process_one_item on its item, the MatchCandidate
\* handed to collect
ScanItem(w) ==
    /\ pc = "scan"
    /\ call.holding[w] # 0
    /\ \E candidate \in
          {process_one_item(config, call.input_combined_vector,
                            self_norm(call.input_combined_vector), call.record,
                            dataset_vectors[call.holding[w]],
                            source_data_records)} :
          call' = [call EXCEPT
                     !.gathered = collect_into(@, call.holding[w], candidate),
                     !.finished = Append(@, call.holding[w]),
                     !.holding[w] = 0]
    /\ UNCHANGED <<config, dataset_vectors, source_data_records, pc,
                   statistics, output_records, scored, records, updates>>

\* collect has returned: the rest of process_record on the gathered vector
Shortlist ==
    /\ pc = "scan"
    /\ \A i \in 1..ScanDocs : call.gathered[i] # None
    /\ pc' = "scanned"
    /\ \E jw \in JaroTables(JaroPairs(config, call.record, source_data_records)) :
       \E result \in
          {process_gathered(config, call.record,
                            [i \in 1..ScanDocs |-> Unwrap(call.gathered[i])],
                            source_data_records, jw)} :
          call' = [call EXCEPT !.result = Some(result)]
    /\ UNCHANGED <<config, dataset_vectors, source_data_records,
                   statistics, output_records, scored, records, updates>>

NextScan ==
    \/ \E w \in Workers, i \in 1..ScanDocs : TakeItem(w, i)
    \/ \E w \in Workers : ScanItem(w)
    \/ Shortlist

SpecScan == InitScan /\ [][NextScan]_vars

Scanned == pc = "scanned"

\* the result of the same call with the items taken one by one in dataset
\* order
SequentialResult ==
    process_record(config, call.record, call.input_combined_vector,
                   dataset_vectors, source_data_records, <<>>)

\* the position of a candidate's document in the dataset
DatasetPosition(candidate) ==
    CHOOSE i \in 1..Len(dataset_vectors) : dataset_vectors[i].id = candidate.id

\* the position of a candidate in the shortlist
ShortlistPosition(candidate) ==
    CHOOSE i \in 1..Len(Unwrap(call.result).shortlist) :
        Unwrap(call.result).shortlist[i].id = candidate.id

\* the gathered vector has one candidate per document, in dataset order; the
\* returned list is that of the sequential scan; equal keys keep their order
ScanIsDeterministic ==
    Scanned =>
        LET result == Unwrap(call.result)
        IN  /\ Len(result.gathered) = Len(dataset_vectors)
            /\ \A i \in 1..Len(dataset_vectors) :
                  result.gathered[i].id = dataset_vectors[i].id
            /\ result = SequentialResult
            /\ \A i, j \in 1..Len(result.shortlist) :
                  (i < j /\ result.shortlist[i].original_similarity
                              = result.shortlist[j].original_similarity)
                      => DatasetPosition(result.shortlist[i])
                           < DatasetPosition(result.shortlist[j])
            /\ \A i, j \in 1..Len(result.top) :
                  (i < j /\ result.top[i].zscore = result.top[j].zscore)
                      => ShortlistPosition(result.top[i])
                           < ShortlistPosition(result.top[j])

\* the shortlist phase starts when no worker holds an item and every item is
\* done
ShortlistAfterWorkers ==
    (pc = "scan" /\ pc' = "scanned") =>
        /\ \A w \in Workers : call.holding[w] = 0
        /\ Len(call.finished) = ScanDocs

\* C17: for one input record the returned top-K list is the same for every
\* interleaving and work partition of the scan workers: the gathered vector
\* holds one MatchCandidate per reference document in dataset order, the
\* shortlist phase starts after all workers have finished, and candidates of
\* equal sort key keep their dataset order through both sorts.
C17_TopKSameForEveryInterleaving ==
    [][ShortlistAfterWorkers]_vars /\ []ScanIsDeterministic

\* the last document finished first, the first one last, documents 1 and 5
\* tie and come out in dataset order
C17_Witness ==
    /\ Scanned
    /\ call.finished[1] = ScanDocs
    /\ call.finished[ScanDocs] = 1
    /\ Len(Unwrap(call.result).top) >= 2
    /\ Unwrap(call.result).top[1].id = DocId(1)
    /\ Unwrap(call.result).top[2].id = DocId(5)
    /\ Unwrap(call.result).top[1].zscore = Unwrap(call.result).top[2].zscore

---------------------------------------------------------------------------
(* The tokenizer: src/src/tokenizer.rs *)

MaxYearChars == 4

\* the characters of a year field: an ASCII digit, a letter, and three
\* numeric characters that are no ASCII digits: SUPERSCRIPT TWO ("sup2",
\* U+00B2, two UTF-8 bytes), ARABIC-INDIC DIGIT THREE ("ar3", U+0663, two
\* bytes) and CIRCLED DIGIT ONE ("c1", U+2460, three bytes)
YearChars == {"1", "a", "sup2", "ar3", "c1"}

\* char::is_numeric: the Unicode categories Nd, Nl and No
is_numeric(c) == c \in Digit \cup {"sup2", "ar3", "c1"}

\* tokenize_year: year.len() is the length in bytes
tokenize_year(year) ==
    IF ByteLen(year) # 4 \/ ~(\A i \in 1..Len(year) : is_numeric(year[i]))
        THEN EmptyMap
        ELSE (year :> 1)

InitTokenize ==
    /\ config = Idle
    /\ dataset_vectors = Idle
    /\ source_data_records = Idle
    /\ statistics = Idle
    /\ output_records = Idle
    /\ scored = Idle
    /\ records = Idle
    /\ updates = Idle
    /\ pc = "tokenize"
    /\ \E year \in StringsOver(YearChars, MaxYearChars) :
          call = [year |-> year, result |-> None]

\* one call of tokenize_year
TokenizeYear ==
    /\ pc = "tokenize"
    /\ call.result = None
    /\ call' = [call EXCEPT !.result = Some(tokenize_year(call.year))]
    /\ UNCHANGED <<config, dataset_vectors, source_data_records, pc,
                   statistics, output_records, scored, records, updates>>

NextTokenize == TokenizeYear

SpecTokenize == InitTokenize /\ [][NextTokenize]_vars

Tokenized == pc = "tokenize" /\ call.result # None

\* the string is four ASCII digits
IsFourAsciiDigits(s) == Len(s) = 4 /\ \A i \in 1..4 : s[i] \in Digit

\* C18: tokenize_year(s) is the mapping {s -> 1} if and only if s is exactly
\* four ASCII digits; for every other string (a wrong length, numeric
\* characters that are no ASCII digits, letters, the empty string) it is the
\* empty mapping.
C18_YearTokenIffFourAsciiDigits ==
    Tokenized =>
        Unwrap(call.result) =
            IF IsFourAsciiDigits(call.year) THEN (call.year :> 1) ELSE EmptyMap

\* what the code does: the token is emitted if and only if the string is
\* four bytes long and every character of it is numeric
C18_YearTokenIffFourNumericBytes ==
    Tokenized =>
        /\ IsFourAsciiDigits(call.year) => Unwrap(call.result) = (call.year :> 1)
        /\ Unwrap(call.result) # EmptyMap =>
              /\ Unwrap(call.result) = (call.year :> 1)
              /\ ByteLen(call.year) = 4
              /\ \A i \in 1..Len(call.year) : is_numeric(call.year[i])

\* STARTSYMBOL, ENDSYMBOL, UNKNOWN: U+0001, U+0002, U+0003
STARTSYMBOL == "u1"

ENDSYMBOL == "u2"

UNKNOWN == "u3"

\* char::is_alphanumeric
is_alphanumeric(c) ==
    \/ is_numeric(c)
    \/ c \in {"E2", "e2"}
    \/ CharCode(c) \in (65..90) \cup (97..122)

\* char::is_control
is_control(c) == CharCode(c) < 32

normalize(text) ==
    LET lowered == to_lowercase(text)
        unpunctuated == SelectSeq(lowered,
                            LAMBDA c : ~(~is_alphanumeric(c) /\ c # "-" /\ c # " "))
        latin1 == SelectSeq(unpunctuated, LAMBDA c : ~(CharCode(c) > 255))
        printable == SelectSeq(latin1, LAMBDA c : ~is_control(c))
    IN  trim(printable)

add_surrounding_tokens(text) == <<STARTSYMBOL>> \o text \o <<ENDSYMBOL>>

\* string.chars().collect::<Vec<char>>().windows(n)
windows(string, n) ==
    [i \in 1..(Len(string) - n + 1) |-> SubSeq(string, i, i + n - 1)]

\* tokenize_ngram: the count of every n-gram goes up by the number of its
\* windows
tokenize_ngram(string, n, tokens) ==
    LET ngrams == windows(string, n)
    IN  [ngram \in DOMAIN tokens \cup {ngrams[i] : i \in DOMAIN ngrams} |->
            (IF ngram \in DOMAIN tokens THEN tokens[ngram] ELSE 0)
            + Cardinality({i \in DOMAIN ngrams : ngrams[i] = ngram})]

tokenize_string(string) ==
    LET surrounded == add_surrounding_tokens(normalize(string))
    IN  tokenize_ngram(surrounded, 3, tokenize_ngram(surrounded, 2, EmptyMap))

---------------------------------------------------------------------------
(* The vocabulary: src/src/vocab.rs.  A word index is the index of the     *)
(* code: words[k + 1] is the word of index k.                              *)

\* elastic::Record
ElasticRecord(id, title, author, location, year) ==
    [id |-> id, title |-> title, author |-> author, location |-> location,
     year |-> year]

\* Record::combined: format!("{} {} {} {}", author, title, location, year)
combined(record) ==
    record.author \o <<" ">> \o record.title \o <<" ">> \o record.location
        \o <<" ">> \o record.year

Parts == {"author", "title", "location", "year", "all"}

\* VocabPart::new
VocabPart_new(part_type) ==
    [part_type |-> part_type, tokens |-> (<<UNKNOWN>> :> <<0, 0>>), idf |-> <<>>]

\* the tokens of a part of a record, by the part's type
part_tokens(part_type, text) ==
    IF part_type = "Ngram" THEN tokenize_string(text)
    ELSE tokenize_year(text)

\* the part of a record the vocabulary part is built from
record_part(record, part) ==
    IF part = "all" THEN combined(record) ELSE record[part]

RECURSIVE Reverse(_)
Reverse(list) ==
    IF list = <<>> THEN <<>> ELSE Append(Reverse(Tail(list)), Head(list))

\* the keys of a HashMap in the order of an iteration: the order is not
\* specified, and is here one of two
Iterations(map) == {SortedKeys(DOMAIN map), Reverse(SortedKeys(DOMAIN map))}

\* words_map.get(&token): the index of the token in words_vec
WordIndex(words, token) ==
    IF \E k \in 1..Len(words) : words[k] = token
        THEN Some((CHOOSE k \in 1..Len(words) : words[k] = token) - 1)
        ELSE None

\* the loop of process_record_part over the tokens of the part, in the
\* order of the iteration
RECURSIVE process_tokens(_, _, _)
process_tokens(iteration, words, tokens) ==
    IF iteration = <<>> THEN [words |-> words, tokens |-> tokens]
    ELSE LET token == Head(iteration)
             found == WordIndex(words, token)
             index == IF IsSome(found) THEN Unwrap(found) ELSE Len(words)
             entry == IF token \in DOMAIN tokens THEN tokens[token]
                      ELSE <<index, 0>>
         IN  process_tokens(Tail(iteration),
                 IF IsSome(found) THEN words ELSE Append(words, token),
                 [t \in DOMAIN tokens \cup {token} |->
                     IF t = token THEN <<entry[1], entry[2] + 1>>
                     ELSE tokens[t]])

\* process_record_part on a part of the vocabulary; iteration is
\* `for (token, _) in tokens_count`
process_record_part(iteration, vocab, part) ==
    LET done == process_tokens(iteration, vocab.words,
                               vocab.vocab_parts[part].tokens)
    IN  [vocab EXCEPT !.words = done.words,
                      !.vocab_parts[part].tokens = done.tokens]

\* f64::log10 of the whole numbers up to 5, in thousandths
Log10(n) ==
    CASE n = 1 -> 0 [] n = 2 -> 301 [] n = 3 -> 477 [] n = 4 -> 602
      [] n = 5 -> 699

\* calculate_single_idf: (total_docs / doc_count).log10(), which is 0.0 if
\* and only if the two are equal
calculate_single_idf(total_docs, doc_count) ==
    IF doc_count = 0 THEN 0
    ELSE Log10(total_docs) - Log10(doc_count)

calculate_idf(vocab_size, total_docs, doc_counts) ==
    [k \in 1..vocab_size |->
        IF \E t \in DOMAIN doc_counts : doc_counts[t][1] = k - 1
            THEN LET t == CHOOSE u \in DOMAIN doc_counts : doc_counts[u][1] = k - 1
                 IN  calculate_single_idf(total_docs, doc_counts[t][2])
            ELSE 0]

---------------------------------------------------------------------------
(* Vectors: src/src/vectorize.rs *)

\* process_part, the first loop: the tf vector
term_frequencies(part, tokens, vocab) ==
    LET known == vocab.vocab_parts[part].tokens
    IN  [k \in 1..Len(vocab.words) |->
            Cardinality({t \in DOMAIN tokens :
                            IF t \in DOMAIN known THEN known[t][1] = k - 1
                            ELSE k = 1})]

\* process_part, the second loop: the pairs (index, count * idf) of the
\* counts above 0
sparse_tf_idf(tf, idf) ==
    LET pairs == [k \in 1..Len(tf) |-> <<k - 1, tf[k] * idf[k]>>]
        kept == SelectSeq([k \in 1..Len(tf) |-> k], LAMBDA k : ~(tf[k] =< 0))
    IN  [i \in 1..Len(kept) |-> pairs[kept[i]]]

process_part(part, tokens, vocab) ==
    sparse_tf_idf(term_frequencies(part, tokens, vocab),
                  vocab.vocab_parts[part].idf)

---------------------------------------------------------------------------
(* build-vocab on a corpus, then vectorize::process_record on a record *)

MaxCorpus == 2

PartType(part) == IF part = "year" THEN "Year" ELSE "Ngram"

\* the tokens of a part of a record
tokens_of(record, part) == part_tokens(PartType(part), record_part(record, part))

\* Vocab::new, before process_source
Vocab_new ==
    [words |-> <<<<UNKNOWN>>>>,
     vocab_parts |-> [part \in Parts |-> VocabPart_new(PartType(part))],
     total_docs |-> 0]

\* process_record of vocab.rs: author, title, location, year, all
vocab_process_record(vocab, iteration) ==
    process_record_part(iteration["all"],
      process_record_part(iteration["year"],
        process_record_part(iteration["location"],
          process_record_part(iteration["title"],
            process_record_part(iteration["author"], vocab, "author"),
            "title"),
          "location"),
        "year"),
      "all")

\* the records of the corpus
CorpusRecords ==
    {ElasticRecord("D", title, <<>>, <<>>, year) :
        title \in {<<"a", "a", "a">>, <<"A", ",", "b">>},
        year \in {<<>>, <<"1", "1", "1", "1">>}}

\* the records that are vectorized: of the corpus, and with tokens the
\* corpus has not
VectorizedRecords ==
    CorpusRecords
    \cup {ElasticRecord("", <<"b", "b", "b">>, <<>>, <<>>, year) :
            year \in {<<"1", "1", "1", "1">>, <<"0", "0", "0", "0">>}}

InitVectorize ==
    /\ config = Idle
    /\ dataset_vectors = Idle
    /\ source_data_records = Idle
    /\ statistics = Idle
    /\ output_records = Idle
    /\ scored = Idle
    /\ records = Idle
    /\ updates = Idle
    /\ pc = "process_source"
    /\ call = [vocab |-> Vocab_new, record |-> None, tokens |-> None,
               tf |-> None, document |-> None]

\* process_source of vocab.rs: one record of the corpus
VocabRecord ==
    /\ pc = "process_source"
    /\ call.vocab.total_docs < MaxCorpus
    /\ \E record \in CorpusRecords :
       \E author \in Iterations(tokens_of(record, "author")),
          title \in Iterations(tokens_of(record, "title")),
          location \in Iterations(tokens_of(record, "location")),
          year \in Iterations(tokens_of(record, "year")),
          all \in Iterations(tokens_of(record, "all")) :
       \E vocab \in
          {vocab_process_record(call.vocab,
               [author |-> author, title |-> title, location |-> location,
                year |-> year, all |-> all])} :
          call' = [call EXCEPT
                     !.vocab = [vocab EXCEPT !.total_docs = @ + 1]]
    /\ UNCHANGED <<config, dataset_vectors, source_data_records, pc,
                   statistics, output_records, scored, records, updates>>

\* Vocab::new after process_source: the idf of every part
VocabIdf ==
    /\ pc = "process_source"
    /\ pc' = "vocab"
    /\ call' = [call EXCEPT !.vocab.vocab_parts =
                  [part \in Parts |->
                      [call.vocab.vocab_parts[part] EXCEPT !.idf =
                          calculate_idf(Len(call.vocab.words),
                              call.vocab.total_docs,
                              call.vocab.vocab_parts[part].tokens)]]]
    /\ UNCHANGED <<config, dataset_vectors, source_data_records,
                   statistics, output_records, scored, records, updates>>

\* process_record of vectorize.rs on one record; the tokens and the tf
\* vector of every part are kept with the Document
VectorizeRecord ==
    /\ pc = "vocab"
    /\ call.document = None
    /\ \E record \in VectorizedRecords :
       \E tokens \in {[part \in Parts |-> tokens_of(record, part)]} :
          call' = [call EXCEPT
                     !.record = Some(record),
                     !.tokens = Some(tokens),
                     !.tf = Some([part \in Parts |->
                                term_frequencies(part, tokens[part], call.vocab)]),
                     !.document = Some(
                         [id |-> record.id,
                          vectors |-> [part \in Parts |->
                                process_part(part, tokens[part], call.vocab)]])]
    /\ UNCHANGED <<config, dataset_vectors, source_data_records, pc,
                   statistics, output_records, scored, records, updates>>

NextVectorize ==
    \/ VocabRecord
    \/ VocabIdf
    \/ VectorizeRecord

SpecVectorize == InitVectorize /\ [][NextVectorize]_vars

Vectorized == pc = "vocab" /\ call.document # None

\* the tokens of the part that the part's vocabulary has
KnownTokens(part) ==
    DOMAIN Unwrap(call.tokens)[part]
        \cap DOMAIN call.vocab.vocab_parts[part].tokens

\* the tokens of the part that the part's vocabulary has not
UnknownTokens(part) ==
    DOMAIN Unwrap(call.tokens)[part]
        \ DOMAIN call.vocab.vocab_parts[part].tokens

\* the index of a known token
IndexOf(part, token) == call.vocab.vocab_parts[part].tokens[token][1]

\* the tf vector of the part at a word index
TermFrequency(part, index) == Unwrap(call.tf)[part][index + 1]

\* the occurrences of the tokens of a set in the part
RECURSIVE Occurrences(_, _)
Occurrences(part, set) ==
    IF set = {} THEN 0
    ELSE LET t == CHOOSE u \in set : TRUE
         IN  Unwrap(call.tokens)[part][t] + Occurrences(part, set \ {t})

\* C19: the term frequency at a known token's index is the number of
\* occurrences of the token in the field, and the term frequency at index 0
\* is the number of occurrences of the tokens the field's vocabulary has not.
C19_TermFrequencyIsOccurrences ==
    Vectorized =>
        \A part \in Parts :
            /\ \A t \in KnownTokens(part) :
                  TermFrequency(part, IndexOf(part, t)) = Occurrences(part, {t})
            /\ TermFrequency(part, 0) = Occurrences(part, UnknownTokens(part))

\* what the code does: the term frequency at a known token's index is 1
\* however often the token occurs, and at index 0 it is the number of
\* distinct unknown tokens
C19_TermFrequencyIsPresence ==
    Vectorized =>
        \A part \in Parts :
            /\ \A t \in KnownTokens(part) :
                  TermFrequency(part, IndexOf(part, t)) = 1
            /\ TermFrequency(part, 0) = Cardinality(UnknownTokens(part))

\* the vector of a part of the Document
Vector(part) == Unwrap(call.document).vectors[part]

\* C20: every per-field vector of process_record is in strictly ascending
\* order of word index, and no pair of it has the score 0: the entries
\* whose tf * idf is 0 are left out.
C20_AscendingAndNonZero ==
    Vectorized =>
        \A part \in Parts :
            /\ \A i, j \in 1..Len(Vector(part)) :
                  i < j => Vector(part)[i][1] < Vector(part)[j][1]
            /\ \A i \in 1..Len(Vector(part)) : Vector(part)[i][2] # 0

\* what the code does: the vector is in strictly ascending order of word
\* index and has the pair (index, tf * idf) of every index whose tf is
\* above 0
C20_AscendingAndOfPositiveCount ==
    Vectorized =>
        \A part \in Parts :
            /\ \A i, j \in 1..Len(Vector(part)) :
                  i < j => Vector(part)[i][1] < Vector(part)[j][1]
            /\ {Vector(part)[i] : i \in 1..Len(Vector(part))}
                 = {<<k, TermFrequency(part, k)
                           * call.vocab.vocab_parts[part].idf[k + 1]>> :
                       k \in {n \in 0..(Len(call.vocab.words) - 1) :
                                 TermFrequency(part, n) > 0}}

---------------------------------------------------------------------------
(* build-vocab twice on one corpus, the records in the same order *)

\* the vocabularies process_record of vocab.rs can leave for a record: one
\* for every order in which the tokens of its parts are visited
vocab_process_record_outcomes(vocab, record) ==
    {[vocab_process_record(vocab,
          [author |-> author, title |-> title, location |-> location,
           year |-> year, all |-> all])
        EXCEPT !.total_docs = @ + 1] :
        author \in Iterations(tokens_of(record, "author")),
        title \in Iterations(tokens_of(record, "title")),
        location \in Iterations(tokens_of(record, "location")),
        year \in Iterations(tokens_of(record, "year")),
        all \in Iterations(tokens_of(record, "all"))}

\* Vocab::new after process_source: the idf of every part
vocab_with_idf(vocab) ==
    [vocab EXCEPT !.vocab_parts =
        [part \in Parts |->
            [vocab.vocab_parts[part] EXCEPT !.idf =
                calculate_idf(Len(vocab.words), vocab.total_docs,
                              vocab.vocab_parts[part].tokens)]]]

\* the corpora: the records in the order the cursor delivers them
RECURSIVE Corpora(_)
Corpora(n) ==
    IF n = 0 THEN {<<>>}
    ELSE Corpora(n - 1)
         \cup {Append(corpus, record) :
                 corpus \in Corpora(n - 1), record \in CorpusRecords}

Builds == {1, 2}

InitRebuild ==
    /\ config = Idle
    /\ dataset_vectors = Idle
    /\ source_data_records = Idle
    /\ statistics = Idle
    /\ output_records = Idle
    /\ scored = Idle
    /\ records = Idle
    /\ updates = Idle
    /\ pc = [run \in Builds |-> "process_source"]
    /\ \E corpus \in Corpora(MaxCorpus) :
          call = [corpus |-> corpus, vocab |-> [run \in Builds |-> Vocab_new]]

\* process_source of vocab.rs in one of the builds: the next record
RebuildRecord(run) ==
    /\ pc[run] = "process_source"
    /\ call.vocab[run].total_docs < Len(call.corpus)
    /\ \E vocab \in vocab_process_record_outcomes(call.vocab[run],
                      call.corpus[call.vocab[run].total_docs + 1]) :
          call' = [call EXCEPT !.vocab[run] = vocab]
    /\ UNCHANGED <<config, dataset_vectors, source_data_records, pc,
                   statistics, output_records, scored, records, updates>>

\* the cursor is Done: the idf of every part, and the Vocab is built
RebuildIdf(run) ==
    /\ pc[run] = "process_source"
    /\ call.vocab[run].total_docs = Len(call.corpus)
    /\ pc' = [pc EXCEPT ![run] = "vocab"]
    /\ call' = [call EXCEPT !.vocab[run] = vocab_with_idf(@)]
    /\ UNCHANGED <<config, dataset_vectors, source_data_records,
                   statistics, output_records, scored, records, updates>>

NextRebuild ==
    \/ \E run \in Builds : RebuildRecord(run)
    \/ \E run \in Builds : RebuildIdf(run)

SpecRebuild == InitRebuild /\ [][NextRebuild]_vars

Rebuilt == pc = [run \in Builds |-> "vocab"]

\* C21: two builds of the Vocab over one corpus, delivered in the same
\* record order, give every token the same word index: the same words
\* sequence and the same (index, document count) entries in every part,
\* in whatever order the tokens of a record are visited.
C21_SameIndicesOnRebuild ==
    Rebuilt =>
        /\ call.vocab[1].words = call.vocab[2].words
        /\ \A part \in Parts :
              call.vocab[1].vocab_parts[part].tokens
                = call.vocab[2].vocab_parts[part].tokens

\* the idf of a token of a part in a build
IdfOf(run, part, token) ==
    call.vocab[run].vocab_parts[part].idf[
        call.vocab[run].vocab_parts[part].tokens[token][1] + 1]

\* what the two builds do share: the set of words, the first word, and the
\* tokens of every part with their document counts and idf
C21_SameTokensOnRebuild ==
    Rebuilt =>
        /\ call.vocab[1].total_docs = call.vocab[2].total_docs
        /\ Len(call.vocab[1].words) = Len(call.vocab[2].words)
        /\ {call.vocab[1].words[k] : k \in 1..Len(call.vocab[1].words)}
             = {call.vocab[2].words[k] : k \in 1..Len(call.vocab[2].words)}
        /\ call.vocab[1].words[1] = <<UNKNOWN>>
        /\ call.vocab[2].words[1] = <<UNKNOWN>>
        /\ \A part \in Parts :
              /\ DOMAIN call.vocab[1].vocab_parts[part].tokens
                   = DOMAIN call.vocab[2].vocab_parts[part].tokens
              /\ \A t \in DOMAIN call.vocab[1].vocab_parts[part].tokens :
                    /\ call.vocab[1].vocab_parts[part].tokens[t][2]
                         = call.vocab[2].vocab_parts[part].tokens[t][2]
                    /\ IdfOf(1, part, t) = IdfOf(2, part, t)
                    /\ call.vocab[1].words[
                           call.vocab[1].vocab_parts[part].tokens[t][1] + 1] = t

---------------------------------------------------------------------------
(* Claims about the candidates of process_record *)

\* the reference document of a candidate
DocumentOf(c) ==
    dataset_vectors[CHOOSE i \in 1..Len(dataset_vectors) :
                        dataset_vectors[i].id = c.id]

\* the base cosine of the input and the candidate's reference document
BaseCosineOf(c) ==
    calculate_base_similarity(call.input_combined_vector,
        self_norm(call.input_combined_vector), DocumentOf(c))

\* the score the scan gives the candidate's reference document: after the
\* reference exclusion, the year gate and penalty, and the threshold pre-cut
ScanScoreOf(c) ==
    process_one_item(config, call.input_combined_vector,
        self_norm(call.input_combined_vector), call.record, DocumentOf(c),
        source_data_records).similarity

\* the candidates of every stage of process_record
StagedCandidates ==
    Members(Result.gathered) \cup Members(Result.shortlist)
        \cup Members(Result.z_kept) \cup Members(Result.top)

\* C22: for every MatchCandidate at every stage of process_record,
\* original_similarity is the base cosine of the input's and the
\* reference's weighted vectors, as it was before any adjustment (year
\* penalty, threshold pre-cut, overlap and Jaro-Winkler multipliers), and
\* similarity is the running score after the enabled adjustments.
C22_OriginalIsBaseCosine ==
    (Processed /\ ~Result.panicked) =>
        /\ \A c \in StagedCandidates : c.original_similarity = BaseCosineOf(c)
        /\ \A c \in Members(Result.gathered) : c.similarity = ScanScoreOf(c)
        /\ \A c \in Members(Result.shortlist) \cup Members(Result.top) :
              c.similarity = AdjustedSimilarity(c)

\* what the code does: original_similarity is the score of the scan, which
\* the overlap and Jaro-Winkler multipliers leave alone
C22_OriginalIsScanScore ==
    (Processed /\ ~Result.panicked) =>
        /\ \A c \in StagedCandidates : c.original_similarity = ScanScoreOf(c)
        /\ \A c \in Members(Result.gathered) : c.similarity = ScanScoreOf(c)
        /\ \A c \in Members(Result.shortlist) \cup Members(Result.top) :
              c.similarity = AdjustedSimilarity(c)

---------------------------------------------------------------------------
(* overlap_score on a pair of titles *)

MaxTitle == 3

MaxOverlapAdjustment == 3

TitleChars == {"a", "b", "A2"}

InitOverlapScore ==
    /\ dataset_vectors = Idle
    /\ source_data_records = Idle
    /\ statistics = Idle
    /\ output_records = Idle
    /\ scored = Idle
    /\ records = Idle
    /\ updates = Idle
    /\ pc = "overlap_score"
    /\ \E l \in 0..MaxOverlapAdjustment :
          config = [DefaultOptions EXCEPT !.overlap_adjustment = Some(l)]
    /\ \E source_string \in StringsOver(TitleChars, MaxTitle),
          input_string \in StringsOver(TitleChars, MaxTitle) :
            call = [source_string |-> source_string,
                    input_string |-> input_string,
                    score |-> None, adjusted |-> None]

\* apply_overlap_score for one candidate: overlap_score on the titles, then
\* overlap_score_adjust
OverlapScore ==
    /\ pc = "overlap_score"
    /\ call.score = None
    /\ \E score \in {overlap_score(config, call.source_string,
                                   call.input_string)} :
          call' = [call EXCEPT !.score = Some(score),
                               !.adjusted = Some(overlap_score_adjust(score))]
    /\ UNCHANGED <<config, dataset_vectors, source_data_records, pc,
                   statistics, output_records, scored, records, updates>>

NextOverlapScore == OverlapScore

SpecOverlapScore == InitOverlapScore /\ [][NextOverlapScore]_vars

OverlapScored == pc = "overlap_score" /\ call.score # None

\* the overlap threshold L
OverlapThreshold == Unwrap(config.overlap_adjustment)

\* the maximal overlaps of the two titles of length >= min(L, |input|)
RetainedOverlaps ==
    SelectSeq(maximal_overlaps(to_lowercase(call.source_string),
                               to_lowercase(call.input_string)),
              LAMBDA o : ByteLen(o) >=
                            Min(OverlapThreshold, ByteLen(call.input_string)))

\* the sum of the retained lengths divided by |input|
RetainedShare ==
    (SumByteLen(RetainedOverlaps) * One) \div ByteLen(call.input_string)

\* C24: with overlap adjustment L set, the raw overlap score of an (input
\* title, reference title) pair is the sum of the lengths of the maximal
\* overlaps of length >= min(L, |input|) divided by |input|, and it is 0
\* when the input title is empty or no overlap is retained.
C24_OverlapScoreIsRetainedShare ==
    OverlapScored =>
        Unwrap(call.score) =
            IF call.input_string = <<>> \/ RetainedOverlaps = <<>> THEN 0
            ELSE RetainedShare

\* what the code does: as C24 says, but 1 when min(L, |input|) is 0, that
\* is for an empty input title and for L = 0
C24_OverlapScoreUnlessThresholdZero ==
    OverlapScored =>
        Unwrap(call.score) =
            IF Min(OverlapThreshold, ByteLen(call.input_string)) = 0 THEN One
            ELSE IF RetainedOverlaps = <<>> THEN 0
            ELSE RetainedShare

\* C30: for every pair of titles and every overlap threshold L, the raw
\* overlap score of overlap_score is in [0, 1]: the retained maximal
\* overlaps never sum to more than the length of the input title.
C30_OverlapScoreInUnitInterval ==
    OverlapScored =>
        /\ 0 =< Unwrap(call.score)
        /\ Unwrap(call.score) =< One
        /\ call.input_string # <<>> =>
              SumByteLen(RetainedOverlaps) =< ByteLen(call.input_string)

\* what the code does keep: the raw score is never negative, and the
\* adjusted score is in [0, 1]
C30_AdjustedScoreInUnitInterval ==
    OverlapScored =>
        /\ 0 =< Unwrap(call.score)
        /\ 0 =< Unwrap(call.adjusted)
        /\ Unwrap(call.adjusted) =< One
        /\ Unwrap(call.score) > One => Unwrap(call.adjusted) = One

---------------------------------------------------------------------------
(* weighted_averaged_vector on a document *)

MaxIndex == 1

\* the parts of the documents below, and default_weights for them
FieldParts == {"author", "title", "all"}

default_weights ==
    [part \in FieldParts |->
        CASE part = "author" -> (3 * One) \div 4
          [] part = "title" -> (3 * One) \div 2
          [] part = "all" -> 0]

\* tf-idf values of a part's vector
FieldValues == {(2 * One) \div 5, (4 * One) \div 5}

\* the keys of a BTreeMap<u32, _> in the order of its iteration
RECURSIVE AscendingIndices(_)
AscendingIndices(indices) ==
    IF indices = {} THEN <<>>
    ELSE LET first == CHOOSE x \in indices : \A y \in indices : x =< y
         IN  <<first>> \o AscendingIndices(indices \ {first})

\* the vectors process_part can give: ascending word indices, each once
FieldVectors ==
    {[i \in 1..Len(AscendingIndices(DOMAIN values)) |->
        <<AscendingIndices(DOMAIN values)[i],
          values[AscendingIndices(DOMAIN values)[i]]>>] :
        values \in UNION {[indices -> FieldValues] :
                            indices \in SUBSET (0..MaxIndex)}}

\* the orders in which a HashMap over the parts can be iterated
PartOrders ==
    {order \in [1..Cardinality(FieldParts) -> FieldParts] :
        \A part \in FieldParts : \E i \in DOMAIN order : order[i] = part}

\* the loop over document.vectors, from the i-th part of the iteration on
RECURSIVE add_parts(_, _, _, _, _, _)
add_parts(iteration, i, document, weights, active_parts, intermediate_vector) ==
    IF i > Len(iteration)
    THEN [active_parts |-> active_parts,
          intermediate_vector |-> intermediate_vector]
    ELSE
    LET vector == document.vectors[iteration[i]]
        weight == weights[iteration[i]]
        weighted == [k \in {vector[n][1] : n \in DOMAIN vector} |->
                        LET n == CHOOSE n \in DOMAIN vector : vector[n][1] = k
                        IN  (vector[n][2] * weight) \div One]
    IN  IF Len(vector) = 0
        THEN add_parts(iteration, i + 1, document, weights, active_parts,
                       intermediate_vector)
        ELSE IF active_parts + 1 = 1
        THEN add_parts(iteration, i + 1, document, weights, 1, weighted)
        ELSE add_parts(iteration, i + 1, document, weights, active_parts + 1,
                [k \in DOMAIN intermediate_vector \cup DOMAIN weighted |->
                    (IF k \in DOMAIN intermediate_vector
                     THEN intermediate_vector[k] ELSE 0)
                    + (IF k \in DOMAIN weighted THEN weighted[k] ELSE 0)])

weighted_averaged_vector_over_all_parts(iteration, document, weights) ==
    LET summed == add_parts(iteration, 1, document, weights, 0, EmptyMap)
        keys == AscendingIndices(DOMAIN summed.intermediate_vector)
    IN  [n \in 1..Len(keys) |->
            <<keys[n], summed.intermediate_vector[keys[n]] \div Len(iteration)>>]

\* weighted_averaged_vector, with the parts of document.vectors visited in
\* the order of iteration
weighted_averaged_vector(iteration, document, weights) ==
    LET summed == add_parts(iteration, 1, document, weights, 0, EmptyMap)
        keys == AscendingIndices(DOMAIN summed.intermediate_vector)
    IN  [n \in 1..Len(keys) |->
            <<keys[n],
              summed.intermediate_vector[keys[n]] \div summed.active_parts>>]

InitAverage ==
    /\ config = Idle
    /\ dataset_vectors = Idle
    /\ source_data_records = Idle
    /\ statistics = Idle
    /\ output_records = Idle
    /\ scored = Idle
    /\ records = Idle
    /\ updates = Idle
    /\ pc = "weighted_averaged_vector"
    /\ \E vectors \in [FieldParts -> FieldVectors] :
          call = [document |-> [id |-> "1", vectors |-> vectors],
                  iteration |-> None, combined_vector |-> None]

\* one call of weighted_averaged_vector
Average ==
    /\ pc = "weighted_averaged_vector"
    /\ call.combined_vector = None
    /\ \E iteration \in PartOrders :
        \E combined_vector \in {weighted_averaged_vector(
                                    iteration, call.document,
                                    default_weights)} :
          call' = [call EXCEPT !.iteration = Some(iteration),
                               !.combined_vector = Some(combined_vector)]
    /\ UNCHANGED <<config, dataset_vectors, source_data_records, pc,
                   statistics, output_records, scored, records, updates>>

NextAverage == Average

SpecAverage == InitAverage /\ [][NextAverage]_vars

Averaged == pc = "weighted_averaged_vector" /\ call.combined_vector # None

\* the parts of the document with a non-empty vector
ActiveParts == {part \in FieldParts : Len(call.document.vectors[part]) > 0}

\* the value of a word index in a part's vector, 0 when it is not there
ValueIn(part, index) ==
    LET vector == call.document.vectors[part]
    IN  IF \E n \in DOMAIN vector : vector[n][1] = index
        THEN vector[CHOOSE n \in DOMAIN vector : vector[n][1] = index][2]
        ELSE 0

\* the sum of weight * value of a word index over a set of parts
RECURSIVE WeightedSum(_, _)
WeightedSum(parts, index) ==
    IF parts = {} THEN 0
    ELSE LET part == CHOOSE part \in parts : TRUE
         IN  (ValueIn(part, index) * default_weights[part]) \div One
             + WeightedSum(parts \ {part}, index)

---------------------------------------------------------------------------
(* Claims about the list process_record returns *)

\* the returned list is in order of non-increasing similarity
NonIncreasingSimilarity(list) ==
    \A i \in 1..Len(list) : \A j \in i..Len(list) :
        FGe(list[i].similarity, list[j].similarity)

\* the shortlist is the TOP_N*20 best of the scan: nothing left out scored
\* more in the scan than something kept
ShortlistIsBestOfScan ==
    /\ Len(Result.shortlist) =< TOP_N * 20
    /\ Len(Result.shortlist) = Min(TOP_N * 20, Len(Result.gathered))
    /\ \A c \in Members(Result.shortlist) :
          \E g \in Members(Result.gathered) : g.id = c.id
    /\ \A g \in Members(Result.gathered) :
          (\A c \in Members(Result.shortlist) : c.id # g.id) =>
              \A c \in Members(Result.shortlist) :
                  FGe(c.original_similarity, g.similarity)

---------------------------------------------------------------------------
(* The corpus scan of build-vocab, build-source-data and
   build-dataset-vectors *)

\* elastic.rs
MAX_RECORDS == 10000000

\* the hits of a page are a multiple of MAX_RECORDS / Pages
Pages == 4

PageSizes == {n * (MAX_RECORDS \div Pages) : n \in 0..2}

ScanCommands == {"build-vocab", "build-source-data", "build-dataset-vectors"}

FetchOk(hits, pagination, total_count) ==
    [tag |-> "Ok", hits |-> hits, pagination |-> pagination,
     total_count |-> total_count]

FetchErr == [tag |-> "Err"]

FetchPanic == [tag |-> "panic"]

\* handle_response on a body with _scroll_id and this many hits
handle_response(hits, total_count) ==
    IF hits = 0 THEN FetchOk(0, "Done", total_count)
    ELSE IF total_count >= MAX_RECORDS THEN FetchOk(0, "Done", total_count)
    ELSE FetchOk(hits, "Scroll", total_count + hits)

\* what a request can come to: reqwest's error from send() or json(), the
\* panic of an unwrap on a body without _scroll_id or hits, or
\* handle_response on a page
Responses(total_count) ==
    {FetchErr, FetchPanic}
    \cup {handle_response(hits, total_count) : hits \in PageSizes}

\* fetch_source: fetch_initial counts from 0
fetch_source(pagination, total_count) ==
    CASE pagination = "Initial" -> Responses(0)
      [] pagination = "Scroll" -> Responses(total_count)
      [] OTHER -> {FetchOk(0, "Done", total_count)}

InitFetch ==
    /\ config = Idle
    /\ dataset_vectors = Idle
    /\ source_data_records = Idle
    /\ statistics = Idle
    /\ output_records = Idle
    /\ scored = Idle
    /\ records = Idle
    /\ updates = Idle
    /\ pc = "fetch_source"
    /\ \E command \in ScanCommands :
          call = [command |-> command, pagination |-> "Initial",
                  total_count |-> 0, counter |-> 0, records |-> None]

\* records = elastic::fetch_source(..)
FetchSource ==
    /\ pc = "fetch_source"
    /\ \E response \in fetch_source(call.pagination, call.total_count) :
          IF response = FetchPanic
            THEN pc' = "panic" /\ call' = [call EXCEPT !.records = None]
            ELSE pc' = "if_done" /\ call' = [call EXCEPT !.records = Some(response)]
    /\ UNCHANGED <<config, dataset_vectors, source_data_records, statistics,
                   output_records, scored, records, updates>>

\* if let Ok((_, Pagination::Done, _)) = records { break; }
IfDone ==
    /\ pc = "if_done"
    /\ pc' = IF Unwrap(call.records).tag = "Ok"
                /\ Unwrap(call.records).pagination = "Done"
                THEN "return" ELSE "if_ok"
    /\ UNCHANGED <<config, dataset_vectors, source_data_records, call,
                   statistics, output_records, scored, records, updates>>

\* if let Ok((new_records, new_pagination, total_count)) = records: the
\* records are processed and the next page is asked for
IfOk ==
    /\ pc = "if_ok"
    /\ Unwrap(call.records).tag = "Ok"
    /\ call' = [call EXCEPT
                  !.counter = @ + Unwrap(call.records).hits,
                  !.pagination = Unwrap(call.records).pagination,
                  !.total_count = Unwrap(call.records).total_count,
                  !.records = None]
    /\ pc' = "fetch_source"
    /\ UNCHANGED <<config, dataset_vectors, source_data_records, statistics,
                   output_records, scored, records, updates>>

\* the same if let on an Err: the body is skipped, and the loop starts
\* again with the records it had
IfNotOk ==
    /\ pc = "if_ok"
    /\ Unwrap(call.records).tag # "Ok"
    /\ pc' = "if_done"
    /\ UNCHANGED <<config, dataset_vectors, source_data_records, call,
                   statistics, output_records, scored, records, updates>>

NextFetch == FetchSource \/ IfDone \/ IfOk \/ IfNotOk

\* the process runs on for as long as it has a step to take
SpecFetch == InitFetch /\ [][NextFetch]_vars /\ WF_vars(NextFetch)

ScanEnded == pc \in {"return", "panic"}

FetchFailed ==
    /\ pc \in {"if_done", "if_ok"}
    /\ Unwrap(call.records).tag = "Err"

\* C27: the scan loop ends, by its return or by a panic, whatever the
\* responses are, a failed fetch included
C27_ScanTerminates == <>ScanEnded

\* what the code does: the loop ends unless a fetch fails, and then it
\* runs for ever on the same Err
C27_ScanTerminatesUnlessFetchFails ==
    /\ <>(ScanEnded \/ FetchFailed)
    /\ [](FetchFailed => [](FetchFailed /\ ~ScanEnded))

---------------------------------------------------------------------------
(* Claims about the label and the candidates of an output record *)

\* the label of an output record says how many candidates it has
LabelAgreesWithTop(output) ==
    /\ output.stats = "NoMatch" <=> Len(output.top) = 0
    /\ output.stats \in {"SingleMatch", "Unqualified"} <=> Len(output.top) = 1
    /\ output.stats \in {"MultipleMatches", "UnqualifiedMultipleMatches"}
          <=> Len(output.top) >= 2

\* C28: with similarity_threshold set, the label of the output record of
\* every scored input agrees with the candidates the record holds: NoMatch
\* iff none, SingleMatch or Unqualified iff one, MultipleMatches or
\* UnqualifiedMultipleMatches iff two or more, also when a scored reference
\* document has no entry in SourceData
C28_LabelAgreesWithEmitted ==
    IsSome(config.similarity_threshold) =>
        \A i \in 1..Len(output_records) :
            Contains(scored, i) => LabelAgreesWithTop(output_records[i])

\* what the code does: the label counts the candidates of process_record,
\* and agrees with the output record when every reference document is in
\* SourceData
C28_LabelAgreesWhenSourceDataComplete ==
    (IsSome(config.similarity_threshold)
     /\ \A k \in 1..Len(dataset_vectors) :
           dataset_vectors[k].id \in DOMAIN source_data_records) =>
        \A i \in 1..Len(output_records) :
            Contains(scored, i) => LabelAgreesWithTop(output_records[i])

---------------------------------------------------------------------------
(* Claims about the year gate on the list process_record returns *)

\* the year of a reference document passes the gate of an input record:
\* within the tolerance when year_tolerance is set, in allowed_years under
\* schema v2 and equal to the input year under schema v1 when it is not
PassesYearGate(cfg, record, source_record) ==
    IF IsSome(cfg.year_tolerance)
        THEN /\ IsSome(ParseI32(record.year))
             /\ IsSome(ParseI32(source_record.year))
             /\ Abs(Unwrap(ParseI32(record.year))
                    - Unwrap(ParseI32(source_record.year)))
                   =< Unwrap(cfg.year_tolerance)
    ELSE IF cfg.json_schema_version >= 2
        THEN /\ IsSome(ParseU32(source_record.year))
             /\ Contains(record.allowed_years,
                         Unwrap(ParseU32(source_record.year)))
    ELSE record.year = source_record.year

\* process_record has returned a list for a gated input
GatedList ==
    /\ Processed
    /\ ~Result.panicked
    /\ config.force_year
    /\ call.record.year # <<"0">>

\* C29: with force_year and an input year other than "0", every candidate
\* process_record returns is of a reference document that has a SourceData
\* record whose year passes the year gate; a document without a SourceData
\* record is not returned
C29_ReturnedPassYearGate ==
    GatedList =>
        \A c \in Members(Result.top) :
            /\ c.id \in DOMAIN source_data_records
            /\ PassesYearGate(config, call.record, source_data_records[c.id])

\* what the code does: the gate is applied to the documents that have a
\* SourceData record
C29_KnownReturnedPassYearGate ==
    GatedList =>
        \A c \in Members(Result.top) :
            c.id \in DOMAIN source_data_records =>
                PassesYearGate(config, call.record, source_data_records[c.id])

=============================================================================
